---- MODULE Spec2Model ----
(***************************************************************************)
(* A model of the geometry, shape-grid, table/chart configuration and      *)
(* canvas rendering code of ratatui:                                        *)
(*   src/src/layout/rect.rs, position.rs, size.rs                           *)
(*   src/src/widgets/canvas.rs, table/table.rs, chart.rs                    *)
(*                                                                          *)
(* Each subsystem has its own variables and its own specification; a       *)
(* specification keeps the variables of the other subsystems at their idle *)
(* values.                                                                  *)
(*                                                                          *)
(* TLC integers are 32 bit wide, so u16 values are kept as naturals        *)
(* 0..U16MAX with the saturation written out, and the u32 / f64            *)
(* intermediate values of Rect::new are computed without ever forming a    *)
(* product above 2^31 - 1.                                                  *)
(***************************************************************************)
EXTENDS Integers, Sequences, FiniteSets, TLC

VARIABLES
    rect,       \* the Rect value the program currently holds
    op,         \* the Rect operation that produced it
    self,       \* the receiver of that operation
    arg,        \* its Rect-shaped argument (other; or the raw x, y, width, height)
    margin,     \* the Margin given to inner
    offset,     \* the Offset given to offset
    status,     \* "ok", or "panic" once an operation has panicked
    grid,       \* the shape-painting grid of a canvas Context (Box<dyn Grid>)
    gridCall,   \* the last call made on the grid, with its arguments
    gridStatus, \* "ok", or "panic" once a grid call has panicked
    layer,      \* the Layer returned by the last save()
    ngrid,      \* number of calls made on the grid
    dots,       \* history: for each cell of a braille grid, the dots painted in it since the last reset
    inks,       \* history: for each cell of a braille grid, the colour of the last paint into it
    table,      \* a Table widget: its rows (their heights) and its widths
    chart,      \* a Chart widget: its hidden_legend_constraints
    widgetCall, \* the last constructor or setter called, with the constraints given
    widgetStatus, \* "ok", or "panic" once a call has panicked
    splitCall,  \* the last Rect::split::<N>(layout) call: area, layout and N
    splitRects, \* the array it returned
    splitStatus, \* "ok", or the panic message
    buf,        \* the Buffer a Canvas is rendered into
    canvasCall, \* the last Canvas::render call: the canvas, the area and the build
    canvasStatus, \* "ok", or the panic message
    iter,       \* a Rows or Columns iterator: its rect and its current row or column
    items,      \* the items next() has returned so far
    nNone,      \* the number of times next() has returned None
    iterStatus, \* "ok", or the panic message
    layoutCall, \* the last Chart::layout call: the chart and the area
    chartLayout, \* the ChartLayout it returned
    renderCall, \* the last Table render call: the table, the state and the area given
    tableState, \* the TableState after the call
    selectionWidth, \* the width the call reserved for the selection column
    rendered,   \* the rows the call drew: index, area and whether the symbol was drawn
    renderStatus, \* "ok", or the panic message
    textCall,   \* the last Text render call: the text, the area and the build
    textDrawn,  \* the lines the call rendered: index and the area given to the line
    textStatus, \* "ok", or the panic message
    appPc,      \* where App::run is: its next step, or "returned" / "exited"
    app,        \* the App: its mode and its context
    term,       \* the terminal: its screen, whether Term::start succeeded, the Term::stop calls
    panicHook,  \* TRUE once install_panic_hook has set the hook
    appResult,  \* what App::run returned, or the exit code of the process
    boundsCall, \* the last get_row_bounds call: rows, selected, offset, max_height, build
    rowBounds   \* what it computed: start, end, the height counted, and the panic if any

rectVars == <<rect, op, self, arg, margin, offset, status>>

gridVars == <<grid, gridCall, gridStatus, layer, ngrid, dots, inks>>

widgetVars == <<table, chart, widgetCall, widgetStatus>>

splitVars == <<splitCall, splitRects, splitStatus>>

canvasVars == <<buf, canvasCall, canvasStatus>>

iterVars == <<iter, items, nNone, iterStatus>>

layoutVars == <<layoutCall, chartLayout>>

renderVars == <<renderCall, tableState, selectionWidth, rendered, renderStatus>>

textVars == <<textCall, textDrawn, textStatus>>

appVars == <<appPc, app, term, panicHook, appResult>>

boundsVars == <<boundsCall, rowBounds>>

vars ==
    <<rectVars, gridVars, widgetVars, splitVars, canvasVars, iterVars, layoutVars,
      renderVars, textVars, appVars, boundsVars>>

\* what a Rect operation leaves alone
notRect == <<gridVars, widgetVars, splitVars, canvasVars, iterVars, layoutVars,
    renderVars, textVars, appVars, boundsVars>>

\* what a grid call leaves alone
notGrid == <<rectVars, widgetVars, splitVars, canvasVars, iterVars, layoutVars,
    renderVars, textVars, appVars, boundsVars>>

\* what a Table or Chart call leaves alone
notWidget == <<rectVars, gridVars, splitVars, canvasVars, iterVars, layoutVars,
    renderVars, textVars, appVars, boundsVars>>

\* what Rect::split leaves alone
notSplit == <<rectVars, gridVars, widgetVars, canvasVars, iterVars, layoutVars,
    renderVars, textVars, appVars, boundsVars>>

\* what Canvas::render leaves alone
notCanvas == <<rectVars, gridVars, widgetVars, splitVars, iterVars, layoutVars,
    renderVars, textVars, appVars, boundsVars>>

\* what an iterator step leaves alone
notIter == <<rectVars, gridVars, widgetVars, splitVars, canvasVars, layoutVars,
    renderVars, textVars, appVars, boundsVars>>

\* what a Table render leaves alone
notRender ==
    <<rectVars, gridVars, widgetVars, splitVars, canvasVars, iterVars, layoutVars,
      textVars, appVars, boundsVars>>

\* what a Text render leaves alone
notText ==
    <<rectVars, gridVars, widgetVars, splitVars, canvasVars, iterVars, layoutVars,
      renderVars, appVars, boundsVars>>

\* what a step of App::run leaves alone
notApp ==
    <<rectVars, gridVars, widgetVars, splitVars, canvasVars, iterVars, layoutVars,
      renderVars, textVars, boundsVars>>

\* what a get_row_bounds call leaves alone
notBounds ==
    <<rectVars, gridVars, widgetVars, splitVars, canvasVars, iterVars, layoutVars,
      renderVars, textVars, appVars>>

\* what Chart::layout leaves alone
notLayout == <<rectVars, gridVars, widgetVars, splitVars, canvasVars, iterVars,
    renderVars, textVars, appVars, boundsVars>>

(***************************************************************************)
(* Bounds of the model.                                                     *)
(***************************************************************************)
\* small u16 coordinates, dimensions and margins are 0..MaxSmall
MaxSmall == 2
\* grids are 0..MaxGridWidth columns wide and 0..MaxGridWidth + 1 rows high
MaxGridWidth == 1
\* number of calls made on a grid
MaxGridCalls == 2
\* number of constraints in a list of widths or in a Layout
MaxConstraints == 2
\* width and height of the areas given to Rect::split are 0..MaxArea
MaxArea == 2
\* number of calls a Canvas paint closure makes on its Context
MaxProgram == 2
\* width and height of the areas given to Chart::layout are 0..MaxChartSize
MaxChartSize == 5
\* height in cells of the half-block grids whose pixels are enumerated
MaxHalfBlockHeight == 2
\* number of lines of a rendered Text, and height of the area it is given
MaxLines == 2
\* AppContext::row_index is 0..MaxRowIndex
MaxRowIndex == 2
\* number of rows of a rendered Table, and height of the area it is given
MaxRows == 3

(***************************************************************************)
(* u16 / i32 arithmetic as the standard library defines it.                 *)
(***************************************************************************)
U16MAX == 65535

I32MAX == 2147483647

Min(a, b) == IF a <= b THEN a ELSE b

Max(a, b) == IF a >= b THEN a ELSE b

\* u16::saturating_add
SatAdd(a, b) == IF a + b > U16MAX THEN U16MAX ELSE a + b

\* u16::saturating_sub
SatSub(a, b) == IF a < b THEN 0 ELSE a - b

\* u16::saturating_mul, written so that the product is formed only when it fits
SatMul(a, b) == IF b # 0 /\ a > U16MAX \div b THEN U16MAX ELSE a * b

\* i32::saturating_add of a value x >= 0 and an i32 d, without leaving 32 bits
I32SatAdd(x, d) == IF d > I32MAX - x THEN I32MAX ELSE x + d

\* Ord::clamp: panics when lo > hi (signalled by the caller), else clamps
Clamp(v, lo, hi) == IF v < lo THEN lo ELSE IF v > hi THEN hi ELSE v

(***************************************************************************)
(* Rect                                                                     *)
(***************************************************************************)
Rect(x, y, w, h) == [x |-> x, y |-> y, width |-> w, height |-> h]

\* Rect::default()
RectDefault == Rect(0, 0, 0, 0)

\* u32::from(width) * u32::from(height) > u32::from(max_area)
AreaOverflows(w, h) == h # 0 /\ w > U16MAX \div h

\* floor(U16MAX * a / b) for 0 < a, b <= U16MAX with a * b > U16MAX;
\* U16MAX = 255 * 257, and the quotient is below 2^31
ScaledRatio(a, b) ==
    LET t == 255 * a
    IN  257 * (t \div b) + (257 * (t % b)) \div b

RECURSIVE SqrtSearch(_, _, _)
\* the largest n in lo..hi with n * n <= q   (lo * lo <= q, hi <= 46340)
SqrtSearch(q, lo, hi) ==
    IF lo = hi THEN lo
    ELSE LET mid == (lo + hi + 1) \div 2
         IN  IF mid * mid <= q THEN SqrtSearch(q, mid, hi)
             ELSE SqrtSearch(q, lo, mid - 1)

\* (x as f64).sqrt() as u16, for x < 2^31
FloorSqrt(q) == Min(SqrtSearch(q, 0, 46340), U16MAX)

\* Rect::new clipping every oversized rect to the largest square
Rect_new_square(x, y, w, h) ==
    IF AreaOverflows(w, h) THEN Rect(x, y, 255, 255) ELSE Rect(x, y, w, h)

\* Rect::new without the clipping branch
Rect_new_unclipped(x, y, w, h) == Rect(x, y, w, h)

\* Rect::new.  height_f = sqrt(max_area / (width / height)) and
\* width_f = height_f * (width / height) = sqrt(max_area * width / height);
\* `as u16` truncates towards zero.  The f64 results are reproduced exactly on
\* every input the model draws (f64 rounding can give one less only where
\* max_area * width / height or its inverse is a perfect square).
Rect_new(x, y, w, h) ==
    IF AreaOverflows(w, h)
    THEN Rect(x, y, FloorSqrt(ScaledRatio(w, h)), FloorSqrt(ScaledRatio(h, w)))
    ELSE Rect(x, y, w, h)

\* Rect::area
Rect_area(r) == SatMul(r.width, r.height)

Rect_is_empty(r) == r.width = 0 \/ r.height = 0

Rect_left(r) == r.x

Rect_right(r) == SatAdd(r.x, r.width)

Rect_top(r) == r.y

Rect_bottom(r) == SatAdd(r.y, r.height)

Margin(h, v) == [horizontal |-> h, vertical |-> v]

Offset(x, y) == [x |-> x, y |-> y]

\* Rect::inner with wrapping instead of guarded, saturating arithmetic
Rect_inner_wrapping(r, m) ==
    Rect((r.x + m.horizontal) % (U16MAX + 1),
         (r.y + m.vertical) % (U16MAX + 1),
         (r.width - 2 * m.horizontal) % (U16MAX + 1),
         (r.height - 2 * m.vertical) % (U16MAX + 1))

\* Rect::inner
Rect_inner(r, m) ==
    LET doubled_margin_horizontal == SatMul(m.horizontal, 2)
        doubled_margin_vertical == SatMul(m.vertical, 2)
    IN  IF r.width < doubled_margin_horizontal \/ r.height < doubled_margin_vertical
        THEN RectDefault
        ELSE Rect(SatAdd(r.x, m.horizontal),
                  SatAdd(r.y, m.vertical),
                  SatSub(r.width, doubled_margin_horizontal),
                  SatSub(r.height, doubled_margin_vertical))

\* Rect::offset with the sum truncated to u16 instead of clamped
Rect_offset_wrapping(r, o) ==
    Rect(I32SatAdd(r.x, o.x) % (U16MAX + 1),
         I32SatAdd(r.y, o.y) % (U16MAX + 1),
         r.width, r.height)

\* Rect::offset
Rect_offset(r, o) ==
    Rect(Clamp(I32SatAdd(r.x, o.x), 0, U16MAX - r.width),
         Clamp(I32SatAdd(r.y, o.y), 0, U16MAX - r.height),
         r.width, r.height)

\* Rect::union ending at the nearer of the two far edges
Rect_union_nearer(r, other) ==
    LET x1 == Min(r.x, other.x)
        y1 == Min(r.y, other.y)
        x2 == Min(Rect_right(r), Rect_right(other))
        y2 == Min(Rect_bottom(r), Rect_bottom(other))
    IN  Rect(x1, y1, SatSub(x2, x1), SatSub(y2, y1))

\* Rect::union
Rect_union(r, other) ==
    LET x1 == Min(r.x, other.x)
        y1 == Min(r.y, other.y)
        x2 == Max(Rect_right(r), Rect_right(other))
        y2 == Max(Rect_bottom(r), Rect_bottom(other))
    IN  Rect(x1, y1, SatSub(x2, x1), SatSub(y2, y1))

\* Rect::intersection with a wrapping instead of a saturating subtraction
Rect_intersection_wrapping(r, other) ==
    LET x1 == Max(r.x, other.x)
        y1 == Max(r.y, other.y)
        x2 == Min(Rect_right(r), Rect_right(other))
        y2 == Min(Rect_bottom(r), Rect_bottom(other))
    IN  Rect(x1, y1, (x2 - x1) % (U16MAX + 1), (y2 - y1) % (U16MAX + 1))

\* Rect::intersection
Rect_intersection(r, other) ==
    LET x1 == Max(r.x, other.x)
        y1 == Max(r.y, other.y)
        x2 == Min(Rect_right(r), Rect_right(other))
        y2 == Min(Rect_bottom(r), Rect_bottom(other))
    IN  Rect(x1, y1, SatSub(x2, x1), SatSub(y2, y1))

\* Rect::intersects
Rect_intersects(r, other) ==
    /\ r.x < Rect_right(other)
    /\ Rect_right(r) > other.x
    /\ r.y < Rect_bottom(other)
    /\ Rect_bottom(r) > other.y

\* Rect::clamp panics in Ord::clamp (assert!(min <= max)) when the upper limit
\* of a coordinate lies below its lower limit
Rect_clamp_panics(r, other) ==
    LET width == Min(r.width, other.width)
        height == Min(r.height, other.height)
    IN  \/ other.x > SatSub(Rect_right(other), width)
        \/ other.y > SatSub(Rect_bottom(other), height)

\* Rect::clamp, when it returns
Rect_clamp(r, other) ==
    LET width == Min(r.width, other.width)
        height == Min(r.height, other.height)
        x == Clamp(r.x, other.x, SatSub(Rect_right(other), width))
        y == Clamp(r.y, other.y, SatSub(Rect_bottom(other), height))
    IN  Rect_new(x, y, width, height)

\* impl From<(Position, Size)> for Rect
Rect_from(position, size) == Rect(position.x, position.y, size.width, size.height)

\* Rect::as_position
Rect_as_position(r) == [x |-> r.x, y |-> r.y]

\* Rect::as_size
Rect_as_size(r) == [width |-> r.width, height |-> r.height]

(***************************************************************************)
(* Inputs of the Rect operations.                                           *)
(***************************************************************************)
U16Vals == (0 .. MaxSmall) \cup {U16MAX}

\* widths and heights given to Rect::new: also the values around sqrt(U16MAX)
\* and those of tests::size_truncation and tests::size_preservation
NewDims == U16Vals \cup {100, 255, 256, 257, 300, 900}

NewArgs == { Rect(x, y, w, h) : x \in U16Vals, y \in U16Vals, w \in NewDims, h \in NewDims }

RawRects == { Rect(x, y, w, h) : x \in U16Vals, y \in U16Vals, w \in U16Vals, h \in U16Vals }

Margins == { Margin(h, v) : h \in U16Vals, v \in U16Vals }

I32Vals == {-I32MAX, -1, 0, 1, I32MAX}

Offsets == { Offset(x, y) : x \in I32Vals, y \in I32Vals }

NoMargin == Margin(0, 0)

NoOffset == Offset(0, 0)

(***************************************************************************)
(* Rect operations as steps of a program that holds one Rect.               *)
(***************************************************************************)
\* an argument `other` of a binary operation is itself built by Rect::new
Others == { Rect_new(a.x, a.y, a.width, a.height) : a \in RawRects }

RectInit ==
    /\ rect \in Others
    /\ op = "default"
    /\ self = RectDefault
    /\ arg = RectDefault
    /\ margin = NoMargin
    /\ offset = NoOffset
    /\ status = "ok"

\* one operation is applied to the Rect the program starts with
CanStep == status = "ok" /\ op = "default"

\* let rect = Rect::new(x, y, width, height)
New ==
    /\ CanStep
    /\ \E a \in NewArgs :
         /\ rect' = Rect_new(a.x, a.y, a.width, a.height)
         /\ arg' = a
    /\ op' = "new"
    /\ self' = RectDefault
    /\ margin' = NoMargin
    /\ offset' = NoOffset
    /\ UNCHANGED status
    /\ UNCHANGED notRect

Union ==
    /\ CanStep
    /\ \E o \in Others :
         /\ rect' = Rect_union(rect, o)
         /\ arg' = o
    /\ op' = "union"
    /\ self' = rect
    /\ margin' = NoMargin
    /\ offset' = NoOffset
    /\ UNCHANGED status
    /\ UNCHANGED notRect

Intersection ==
    /\ CanStep
    /\ \E o \in Others :
         /\ rect' = Rect_intersection(rect, o)
         /\ arg' = o
    /\ op' = "intersection"
    /\ self' = rect
    /\ margin' = NoMargin
    /\ offset' = NoOffset
    /\ UNCHANGED status
    /\ UNCHANGED notRect

Inner ==
    /\ CanStep
    /\ \E m \in Margins :
         /\ rect' = Rect_inner(rect, m)
         /\ margin' = m
    /\ op' = "inner"
    /\ self' = rect
    /\ arg' = RectDefault
    /\ offset' = NoOffset
    /\ UNCHANGED status
    /\ UNCHANGED notRect

OffsetBy ==
    /\ CanStep
    /\ \E o \in Offsets :
         /\ rect' = Rect_offset(rect, o)
         /\ offset' = o
    /\ op' = "offset"
    /\ self' = rect
    /\ arg' = RectDefault
    /\ margin' = NoMargin
    /\ UNCHANGED status
    /\ UNCHANGED notRect

\* self.clamp(other): panics, or returns the clamped rect
ClampTo ==
    /\ CanStep
    /\ \E o \in Others :
         /\ arg' = o
         /\ IF Rect_clamp_panics(rect, o)
            THEN rect' = rect /\ status' = "panic"
            ELSE rect' = Rect_clamp(rect, o) /\ status' = "ok"
    /\ op' = "clamp"
    /\ self' = rect
    /\ margin' = NoMargin
    /\ offset' = NoOffset
    /\ UNCHANGED notRect

\* Rect::from((position, size)), position and size being any values of their types
FromPositionSize ==
    /\ CanStep
    /\ \E a \in RawRects :
         /\ rect' = Rect_from(Rect_as_position(a), Rect_as_size(a))
         /\ arg' = a
    /\ op' = "from"
    /\ self' = RectDefault
    /\ margin' = NoMargin
    /\ offset' = NoOffset
    /\ UNCHANGED status
    /\ UNCHANGED notRect

RectNext ==
    \/ New
    \/ Union
    \/ Intersection
    \/ Inner
    \/ OffsetBy
    \/ ClampTo
    \/ FromPositionSize

(***************************************************************************)
(* Shape-painting grids (canvas.rs).  Characters are kept as code points.   *)
(***************************************************************************)
\* ' '
SPACE == 32

\* symbols::DOT
DOT == 8226

\* symbols::block::FULL
block_FULL == 9608

\* symbols::bar::HALF
bar_HALF == 9604

\* symbols::half_block::UPPER
half_block_UPPER == 9600

\* symbols::half_block::LOWER
half_block_LOWER == 9604

\* symbols::half_block::FULL
half_block_FULL == 9608

\* symbols::braille::BLANK
braille_BLANK == 10240

\* symbols::braille::DOTS[row][column], 0-based
braille_DOTS(row, column) ==
    <<<<1, 8>>, <<2, 16>>, <<4, 32>>, <<64, 128>>>>[row + 1][column + 1]

RECURSIVE BitOr(_, _)
\* a | b
BitOr(a, b) ==
    IF a = 0 THEN b
    ELSE IF b = 0 THEN a
    ELSE 2 * BitOr(a \div 2, b \div 2) + (IF a % 2 = 1 \/ b % 2 = 1 THEN 1 ELSE 0)

\* the Color values the model paints with
Colors == {"Reset", "Red", "Blue"}

\* vec![v; n]
Fill(v, n) == [i \in 1 .. n |-> v]

\* a value of one of the three Grid implementations; the fields a variant
\* does not have are empty
GridOf(kind, width, height, cells, codes, colors, pixels, cell_char) ==
    [kind |-> kind, width |-> width, height |-> height, cells |-> cells,
     utf16_code_points |-> codes, colors |-> colors, pixels |-> pixels,
     cell_char |-> cell_char]

\* BrailleGrid::new
BrailleGrid_new(width, height) ==
    LET length == width * height
    IN  GridOf("braille", width, height, <<>>, Fill(braille_BLANK, length),
               Fill("Reset", length), <<>>, SPACE)

\* CharGrid::new
CharGrid_new(width, height, cell_char) ==
    LET length == width * height
    IN  GridOf("char", width, height, Fill(SPACE, length), <<>>,
               Fill("Reset", length), <<>>, cell_char)

\* HalfBlockGrid::new
HalfBlockGrid_new(width, height) ==
    GridOf("halfblock", width, height, <<>>, <<>>, <<>>,
           Fill(Fill("Reset", width), height * 2), SPACE)

\* Grid::resolution, in dots (the code returns these as f64)
Grid_resolution(g) ==
    CASE g.kind = "braille" -> <<g.width * 2, g.height * 4>>
      [] g.kind = "char" -> <<g.width, g.height>>
      [] g.kind = "halfblock" -> <<g.width, g.height * 2>>

\* BrailleGrid::paint; Vec::get_mut(index) is None at index >= len
BrailleGrid_paint(g, x, y, color) ==
    LET index == (y \div 4) * g.width + x \div 2
    IN  IF index < Len(g.utf16_code_points)
        THEN [g EXCEPT !.utf16_code_points[index + 1] =
                            BitOr(@, braille_DOTS(y % 4, x % 2)),
                       !.colors[index + 1] = color]
        ELSE g

\* CharGrid::paint
CharGrid_paint(g, x, y, color) ==
    LET index == y * g.width + x
    IN  IF index < Len(g.cells)
        THEN [g EXCEPT !.cells[index + 1] = g.cell_char,
                       !.colors[index + 1] = color]
        ELSE g

\* HalfBlockGrid::paint indexes self.pixels[y][x]: out of bounds it panics
HalfBlockGrid_paint_panics(g, x, y) ==
    \/ y >= Len(g.pixels)
    \/ x >= Len(g.pixels[y + 1])

\* HalfBlockGrid::paint, when it returns
HalfBlockGrid_paint(g, x, y, color) ==
    [g EXCEPT !.pixels[y + 1][x + 1] = color]

\* Grid::paint panics
Grid_paint_panics(g, x, y) ==
    g.kind = "halfblock" /\ HalfBlockGrid_paint_panics(g, x, y)

\* Grid::paint (dynamic dispatch), when it returns
Grid_paint(g, x, y, color) ==
    CASE g.kind = "braille" -> BrailleGrid_paint(g, x, y, color)
      [] g.kind = "char" -> CharGrid_paint(g, x, y, color)
      [] g.kind = "halfblock" -> HalfBlockGrid_paint(g, x, y, color)

\* Grid::reset
Grid_reset(g) ==
    CASE g.kind = "braille" ->
           [g EXCEPT !.utf16_code_points = Fill(braille_BLANK, Len(@)),
                     !.colors = Fill("Reset", Len(@))]
      [] g.kind = "char" ->
           [g EXCEPT !.cells = Fill(SPACE, Len(@)),
                     !.colors = Fill("Reset", Len(@))]
      [] g.kind = "halfblock" ->
           [g EXCEPT !.pixels = Fill(Fill("Reset", g.width), Len(@))]

Layer(string, colors) == [string |-> string, colors |-> colors]

\* the (upper, lower) pixel pairs of a HalfBlockGrid in row-major cell order:
\* pixels.iter().tuples().flat_map(|(upper_row, lower_row)| zip(upper_row, lower_row))
vertical_color_pairs(g) ==
    LET rows == Len(g.pixels) \div 2
    IN  [i \in 1 .. rows * g.width |->
            LET r == (i - 1) \div g.width
                c == (i - 1) % g.width
            IN  <<g.pixels[2 * r + 1][c + 1], g.pixels[2 * r + 2][c + 1]>>]

\* the character of HalfBlockGrid::save without the full block for equal colours
half_block_char_upper(upper, lower) ==
    IF upper = "Reset" /\ lower = "Reset" THEN SPACE
    ELSE IF upper = "Reset" THEN half_block_LOWER
    ELSE half_block_UPPER

\* the character HalfBlockGrid::save prints for a pixel pair
half_block_char(upper, lower) ==
    IF upper = "Reset" /\ lower = "Reset" THEN SPACE
    ELSE IF upper = "Reset" THEN half_block_LOWER
    ELSE IF lower = "Reset" THEN half_block_UPPER
    ELSE IF lower = upper THEN half_block_FULL
    ELSE half_block_UPPER

\* the (fg, bg) colours HalfBlockGrid::save gives a pixel pair
half_block_colors(upper, lower) ==
    IF upper = "Reset" /\ lower = "Reset" THEN <<"Reset", "Reset">>
    ELSE IF upper = "Reset" THEN <<lower, "Reset">>
    ELSE IF lower = "Reset" THEN <<upper, "Reset">>
    ELSE <<upper, lower>>

\* Grid::save
Grid_save(g) ==
    CASE g.kind = "braille" ->
           Layer(g.utf16_code_points,
                 [i \in 1 .. Len(g.colors) |-> <<g.colors[i], "Reset">>])
      [] g.kind = "char" ->
           Layer(g.cells, [i \in 1 .. Len(g.colors) |-> <<g.colors[i], "Reset">>])
      [] g.kind = "halfblock" ->
           LET pairs == vertical_color_pairs(g)
           IN  Layer([i \in 1 .. Len(pairs) |-> half_block_char(pairs[i][1], pairs[i][2])],
                     [i \in 1 .. Len(pairs) |-> half_block_colors(pairs[i][1], pairs[i][2])])

(***************************************************************************)
(* A grid as a Context holds it: built by Context::new for a marker, then   *)
(* painted through Painter::paint, saved and reset.                         *)
(***************************************************************************)
GridWidths == 0 .. MaxGridWidth

GridHeights == 0 .. (MaxGridWidth + 1)

\* Context::new: the grid built for a marker
Context_new_grid(width, height, marker) ==
    CASE marker = "Dot" -> CharGrid_new(width, height, DOT)
      [] marker = "Block" -> CharGrid_new(width, height, block_FULL)
      [] marker = "Bar" -> CharGrid_new(width, height, bar_HALF)
      [] marker = "Braille" -> BrailleGrid_new(width, height)
      [] marker = "HalfBlock" -> HalfBlockGrid_new(width, height)

\* symbols::Marker
Markers == {"Dot", "Block", "Bar", "Braille", "HalfBlock"}

\* the markers of the grids the grid specification starts from: one for each
\* Grid implementation
GridMarkers == {"Dot", "Braille", "HalfBlock"}

NoCall == [op |-> "new", x |-> 0, y |-> 0, color |-> "Reset"]

NoLayer == Layer(<<>>, <<>>)

\* the number of cells whose painted dots are recorded: those of a braille grid
HistoryCells(g) == IF g.kind = "braille" THEN g.width * g.height ELSE 0

\* no dot painted in any cell
NoDots(g) == Fill({}, HistoryCells(g))

\* no paint into any cell
NoInks(g) == Fill("Reset", HistoryCells(g))

\* the dot (x, y) lies in a cell of the braille grid: the grid is width * 2
\* dots wide and height * 4 dots high
InBrailleGrid(g, x, y) == g.kind = "braille" /\ x < g.width * 2 /\ y < g.height * 4

\* the cell the dot (x, y) lies in, counted row by row from 1: two dots per
\* column and four per row
CellOfDot(g, x, y) == (y \div 4) * g.width + x \div 2 + 1

\* the dots recorded after paint(x, y, color): the dot <<row, column>> in its cell
DotsAfterPaint(g, d, x, y) ==
    IF InBrailleGrid(g, x, y)
    THEN [d EXCEPT ![CellOfDot(g, x, y)] = @ \cup {<<y % 4, x % 2>>}]
    ELSE d

\* the colours recorded after paint(x, y, color)
InksAfterPaint(g, k, x, y, color) ==
    IF InBrailleGrid(g, x, y) THEN [k EXCEPT ![CellOfDot(g, x, y)] = color] ELSE k

\* dot coordinates given to paint: the first columns and rows, the last one,
\* and the first one out of range
PaintXs(g) ==
    { x \in 0 .. Grid_resolution(g)[1] : x < 2 \/ x >= Grid_resolution(g)[1] - 1 }

PaintYs(g) ==
    { y \in 0 .. Grid_resolution(g)[2] : y < 4 \/ y >= Grid_resolution(g)[2] - 1 }

GridInit ==
    /\ \E w \in GridWidths, h \in GridHeights, m \in GridMarkers :
         grid = Context_new_grid(w, h, m)
    /\ gridCall = NoCall
    /\ gridStatus = "ok"
    /\ layer = NoLayer
    /\ ngrid = 0
    /\ dots = NoDots(grid)
    /\ inks = NoInks(grid)

GridCanStep == gridStatus = "ok" /\ ngrid < MaxGridCalls

\* Painter::paint(x, y, color)
Paint ==
    /\ GridCanStep
    /\ \E x \in PaintXs(grid), y \in PaintYs(grid), color \in Colors :
         /\ gridCall' = [op |-> "paint", x |-> x, y |-> y, color |-> color]
         /\ IF Grid_paint_panics(grid, x, y)
            THEN grid' = grid /\ gridStatus' = "panic"
            ELSE grid' = Grid_paint(grid, x, y, color) /\ gridStatus' = "ok"
         /\ dots' = DotsAfterPaint(grid, dots, x, y)
         /\ inks' = InksAfterPaint(grid, inks, x, y, color)
    /\ ngrid' = ngrid + 1
    /\ UNCHANGED layer
    /\ UNCHANGED notGrid

\* grid.save()
Save ==
    /\ GridCanStep
    /\ layer' = Grid_save(grid)
    /\ gridCall' = [NoCall EXCEPT !.op = "save"]
    /\ ngrid' = ngrid + 1
    /\ UNCHANGED <<grid, gridStatus, dots, inks>>
    /\ UNCHANGED notGrid

\* grid.reset()
Reset ==
    /\ GridCanStep
    /\ grid' = Grid_reset(grid)
    /\ gridCall' = [NoCall EXCEPT !.op = "reset"]
    /\ ngrid' = ngrid + 1
    /\ dots' = NoDots(grid)
    /\ inks' = NoInks(grid)
    /\ UNCHANGED <<layer, gridStatus>>
    /\ UNCHANGED notGrid

\* the grid of a program that only uses Rects
GridIdle ==
    /\ grid = BrailleGrid_new(0, 0)
    /\ gridCall = NoCall
    /\ gridStatus = "ok"
    /\ layer = NoLayer
    /\ ngrid = 0
    /\ dots = NoDots(grid)
    /\ inks = NoInks(grid)

\* the Rect of a program that only uses a grid
RectIdle ==
    /\ rect = RectDefault
    /\ op = "idle"
    /\ self = RectDefault
    /\ arg = RectDefault
    /\ margin = NoMargin
    /\ offset = NoOffset
    /\ status = "ok"

\* the pixels painting can produce in a half-block grid: every colour in
\* every pixel of height * 2 rows of width pixels
HalfBlockPixels(w, h) == [1 .. h * 2 -> [1 .. w -> Colors]]

\* a half-block grid after any number of paints, before it is saved
HalfBlockInit ==
    /\ \E w \in 0 .. 2, h \in 0 .. MaxHalfBlockHeight :
         \E pixels \in HalfBlockPixels(w, h) :
            grid = [HalfBlockGrid_new(w, h) EXCEPT !.pixels = pixels]
    /\ gridCall = NoCall
    /\ gridStatus = "ok"
    /\ layer = NoLayer
    /\ ngrid = 0
    /\ dots = NoDots(grid)
    /\ inks = NoInks(grid)

GridNext ==
    \/ Paint
    \/ Save
    \/ Reset

(***************************************************************************)
(* Constraints, and the Table and Chart operations that accept them         *)
(* (table.rs, chart.rs).                                                    *)
(***************************************************************************)
Constraint(kind, a, b) == [kind |-> kind, a |-> a, b |-> b]

Length(n) == Constraint("Length", n, 0)

Percentage(p) == Constraint("Percentage", p, 0)

Ratio(num, den) == Constraint("Ratio", num, den)

ConstraintMin(n) == Constraint("Min", n, 0)

ConstraintMax(n) == Constraint("Max", n, 0)

ConstraintFill(n) == Constraint("Fill", n, 0)

\* the largest Percentage ensure_percentages_less_than_100 accepts
MaxPercentage == 100

\* the Constraint values callers give
ConstraintVals ==
    {Length(1), Ratio(1, 4), ConstraintMin(0), ConstraintMax(1), ConstraintFill(1)}
    \cup { Percentage(p) : p \in {0, MaxPercentage, MaxPercentage + 1, U16MAX} }

\* the lists of up to n values of S
SeqsUpTo(S, n) == UNION { [1 .. k -> S] : k \in 0 .. n }

ConstraintLists == SeqsUpTo(ConstraintVals, MaxConstraints)

\* the rows given to a Table, as their heights
RowLists == {<<>>, <<1>>}

\* ensure_percentages_less_than_100 panics
ensure_percentages_panics(widths) ==
    \E i \in 1 .. Len(widths) :
        widths[i].kind = "Percentage" /\ ~(widths[i].a <= MaxPercentage)

Table(rows, widths) == [rows |-> rows, widths |-> widths]

\* Table::default()
Table_default == Table(<<>>, <<>>)

\* Table::new panics
Table_new_panics(rows, widths) == ensure_percentages_panics(widths)

\* Table::new, when it returns
Table_new(rows, widths) == Table(rows, widths)

\* Table::widths panics
Table_widths_panics(tbl, widths) == ensure_percentages_panics(widths)

\* Table::widths, when it returns
Table_widths(tbl, widths) == [tbl EXCEPT !.widths = widths]

\* impl FromIterator for Table
Table_from_iter(rows) == Table_new(rows, <<>>)

Chart(constraints) == [hidden_legend_constraints |-> constraints]

\* Chart::new
Chart_new == Chart(<<Ratio(1, 4), Ratio(1, 4)>>)

\* Chart::hidden_legend_constraints
Chart_hidden_legend_constraints(c, constraints) ==
    [c EXCEPT !.hidden_legend_constraints = constraints]

WidgetCall(name, given) == [op |-> name, given |-> given]

WidgetInit ==
    /\ table = Table_default
    /\ chart = Chart_new
    /\ widgetCall = WidgetCall("default", <<>>)
    /\ widgetStatus = "ok"

\* a widget is built once: no constructor or setter has been called yet
Unbuilt == widgetStatus = "ok" /\ widgetCall.op = "default"

\* a Table has been built and its widths may still be set
TableBuilt ==
    widgetStatus = "ok" /\ widgetCall.op \in {"default", "Table::new", "Table::from_iter"}

\* Table::new(rows, widths)
TableNew ==
    /\ Unbuilt
    /\ \E rows \in RowLists, widths \in ConstraintLists :
         /\ widgetCall' = WidgetCall("Table::new", widths)
         /\ IF Table_new_panics(rows, widths)
            THEN table' = table /\ widgetStatus' = "panic"
            ELSE table' = Table_new(rows, widths) /\ widgetStatus' = "ok"
    /\ UNCHANGED chart
    /\ UNCHANGED notWidget

\* table.widths(widths)
TableWidths ==
    /\ TableBuilt
    /\ \E widths \in ConstraintLists :
         /\ widgetCall' = WidgetCall("Table::widths", widths)
         /\ IF Table_widths_panics(table, widths)
            THEN table' = table /\ widgetStatus' = "panic"
            ELSE table' = Table_widths(table, widths) /\ widgetStatus' = "ok"
    /\ UNCHANGED chart
    /\ UNCHANGED notWidget

\* rows.into_iter().collect::<Table>()
TableFromIter ==
    /\ Unbuilt
    /\ \E rows \in RowLists : table' = Table_from_iter(rows)
    /\ widgetCall' = WidgetCall("Table::from_iter", <<>>)
    /\ UNCHANGED <<chart, widgetStatus>>
    /\ UNCHANGED notWidget

\* chart.hidden_legend_constraints((c1, c2))
ChartHiddenLegendConstraints ==
    /\ Unbuilt
    /\ \E c1 \in ConstraintVals, c2 \in ConstraintVals :
         /\ chart' = Chart_hidden_legend_constraints(chart, <<c1, c2>>)
         /\ widgetCall' = WidgetCall("Chart::hidden_legend_constraints", <<c1, c2>>)
    /\ UNCHANGED <<table, widgetStatus>>
    /\ UNCHANGED notWidget

WidgetNext ==
    \/ TableNew
    \/ TableWidths
    \/ TableFromIter
    \/ ChartHiddenLegendConstraints

\* the widgets of a program that builds none
WidgetIdle == WidgetInit

(***************************************************************************)
(* Rect::split (rect.rs) over Layout::split.                                *)
(***************************************************************************)
Layout(direction, constraints) == [direction |-> direction, constraints |-> constraints]

\* the Layouts given to split
Layouts ==
    { Layout(d, cs) : d \in {"Horizontal", "Vertical"},
                      cs \in SeqsUpTo({Length(1), Percentage(50)}, MaxConstraints) }

\* the areas given to split
Areas == { Rect(x, y, w, h) : x \in {0, 1}, y \in {0, 1}, w \in 0 .. MaxArea, h \in 0 .. MaxArea }

\* the non-decreasing lists of n + 1 cut points between lo and hi
Cuts(n, lo, hi) ==
    { c \in [1 .. n + 1 -> lo .. hi] : \A i \in 1 .. n : c[i] <= c[i + 1] }

\* Layout::split(area): the results the solver may give.  It returns exactly
\* one rect for each constraint, each with the cross-axis extent of the area,
\* one after the other along the main axis inside the area.
Layout_split(layout, area) ==
    LET n == Len(layout.constraints)
    IN  IF layout.direction = "Horizontal"
        THEN { [i \in 1 .. n |-> Rect(c[i], area.y, c[i + 1] - c[i], area.height)] :
                 c \in Cuts(n, area.x, Rect_right(area)) }
        ELSE { [i \in 1 .. n |-> Rect(area.x, c[i], area.width, c[i + 1] - c[i])] :
                 c \in Cuts(n, area.y, Rect_bottom(area)) }

\* Rect::split that panics only when the solver gave too few rects
Rect_split_panics_lenient(solved, N) == Len(solved) < N

\* Vec<Rect>::try_into::<[Rect; N]>() fails, and expect() panics
Rect_split_panics(solved, N) == Len(solved) # N

\* Rect::split::<N>, when it returns: the solver's rects as an array
Rect_split(solved, N) == solved

SplitCall(name, area, layout, N) ==
    [op |-> name, area |-> area, layout |-> layout, N |-> N]

NoSplit == SplitCall("none", RectDefault, Layout("Horizontal", <<>>), 0)

SplitInit ==
    /\ splitCall = NoSplit
    /\ splitRects = <<>>
    /\ splitStatus = "ok"

\* let rects: [Rect; N] = area.split(&layout)
Split ==
    /\ splitCall.op = "none"
    /\ \E area \in Areas, layout \in Layouts, N \in 0 .. (MaxConstraints + 1) :
         /\ splitCall' = SplitCall("split", area, layout, N)
         /\ \E solved \in Layout_split(layout, area) :
              IF Rect_split_panics(solved, N)
              THEN splitRects' = <<>> /\ splitStatus' = "invalid number of rects"
              ELSE splitRects' = Rect_split(solved, N) /\ splitStatus' = "ok"
    /\ UNCHANGED notSplit

SplitNext ==
    \/ Split

SplitIdle == SplitInit

(***************************************************************************)
(* Canvas rendering (canvas.rs).  Coordinates of the canvas are f64 in the  *)
(* code; the model gives whole numbers, for which the arithmetic is exact.  *)
(***************************************************************************)
Abs(n) == IF n < 0 THEN -n ELSE n

\* Option<T>
None == <<>>

Some(v) == <<v>>

\* (n / d) as usize for f64 n, d with d # 0: truncated, negative values to 0
CastUsize(n, d) == IF n <= 0 THEN 0 ELSE n \div d

\* (n / d) as u16 for f64 n, d: truncated and saturating, NaN (0 / 0) to 0
CastU16(n, d) ==
    IF d = 0
    THEN (IF n > 0 THEN U16MAX ELSE 0)
    ELSE Min(CastUsize(n, d), U16MAX)

\* a - b on u16 overflows
SubOverflows(a, b) == b > a

\* a - b on u16 in a build without overflow checks
WrappingSub(a, b) == (a - b + U16MAX + 1) % (U16MAX + 1)

\* a + b on u16 overflows
AddOverflows(a, b) == a + b > U16MAX

\* a + b on u16 in a build without overflow checks
WrappingAdd(a, b) == (a + b) % (U16MAX + 1)

\* the builds of the crate: with and without overflow checks
Builds == {"debug", "release"}

Context(x_bounds, y_bounds, g, dirty, layers, labels) ==
    [x_bounds |-> x_bounds, y_bounds |-> y_bounds, grid |-> g, dirty |-> dirty,
     layers |-> layers, labels |-> labels]

\* Context::new
Context_new(width, height, x_bounds, y_bounds, marker) ==
    Context(x_bounds, y_bounds, Context_new_grid(width, height, marker), FALSE, <<>>, <<>>)

\* Painter::get_point
Painter_get_point(ctx, x, y) ==
    LET left == ctx.x_bounds[1]
        right == ctx.x_bounds[2]
        top == ctx.y_bounds[2]
        bottom == ctx.y_bounds[1]
        width == Abs(ctx.x_bounds[2] - ctx.x_bounds[1])
        height == Abs(ctx.y_bounds[2] - ctx.y_bounds[1])
        resolution == Grid_resolution(ctx.grid)
    IN  IF x < left \/ x > right \/ y < bottom \/ y > top THEN None
        ELSE IF width = 0 \/ height = 0 THEN None
        ELSE Some(<<CastUsize((x - left) * (resolution[1] - 1), width),
                    CastUsize((top - y) * (resolution[2] - 1), height)>>)

\* Context::draw panics, for a shape that paints the one point it holds:
\*   if let Some((x, y)) = painter.get_point(x, y) { painter.paint(x, y, color) }
Context_draw_panics(ctx, shape) ==
    LET point == Painter_get_point(ctx, shape.x, shape.y)
    IN  point # None /\ Grid_paint_panics(ctx.grid, point[1][1], point[1][2])

\* Context::draw of such a shape, when it returns
Context_draw(ctx, shape) ==
    LET point == Painter_get_point(ctx, shape.x, shape.y)
    IN  IF point = None
        THEN [ctx EXCEPT !.dirty = TRUE]
        ELSE [ctx EXCEPT !.dirty = TRUE,
                         !.grid = Grid_paint(@, point[1][1], point[1][2], shape.color)]

\* Context::layer
Context_layer(ctx) ==
    [ctx EXCEPT !.layers = Append(@, Grid_save(ctx.grid)),
                !.grid = Grid_reset(@),
                !.dirty = FALSE]

Label(x, y, line) == [x |-> x, y |-> y, line |-> line]

\* Context::print
Context_print(ctx, x, y, line) ==
    [ctx EXCEPT !.labels = Append(@, Label(x, y, line))]

\* Context::finish
Context_finish(ctx) == IF ctx.dirty THEN Context_layer(ctx) ELSE ctx

\* one call of a paint closure on its Context
CanvasOp(name, x, y) == [op |-> name, x |-> x, y |-> y]

\* the text of the labels: "a"
LabelLine == <<97>>

\* the bounds a Canvas is given: the default ones and [0.0, 2.0]
BoundsVals == {<<0, 0>>, <<0, 2>>}

\* the calls the paint closures make: points at both ends of the bounds and
\* outside of them, a layer, and labels at both ends of the bounds
CanvasOps ==
    {CanvasOp("draw", 0, 0), CanvasOp("draw", 2, 2), CanvasOp("draw", 3, 0),
     CanvasOp("layer", 0, 0),
     CanvasOp("print", 0, 2), CanvasOp("print", 2, 0)}

Programs == SeqsUpTo(CanvasOps, MaxProgram)

RECURSIVE RunPaintFunc(_, _, _)
\* painter(&mut ctx): the calls of the closure from the i-th on; a panic
\* leaves the closure
RunPaintFunc(ctx, program, i) ==
    IF i > Len(program) THEN [ctx |-> ctx, panicked |-> FALSE]
    ELSE LET c == program[i]
         IN  CASE c.op = "draw" ->
                    LET shape == [x |-> c.x, y |-> c.y, color |-> "Red"]
                    IN  IF Context_draw_panics(ctx, shape)
                        THEN [ctx |-> ctx, panicked |-> TRUE]
                        ELSE RunPaintFunc(Context_draw(ctx, shape), program, i + 1)
               [] c.op = "layer" -> RunPaintFunc(Context_layer(ctx), program, i + 1)
               [] c.op = "print" ->
                    RunPaintFunc(Context_print(ctx, c.x, c.y, LabelLine), program, i + 1)

\* buffer::Cell
Cell(symbol, fg, bg) == [symbol |-> symbol, fg |-> fg, bg |-> bg]

Cell_default == Cell(SPACE, "Reset", "Reset")

\* Buffer::empty(area)
Buffer_empty(area) ==
    [area |-> area, content |-> Fill(Cell_default, area.width * area.height)]

\* (x, y) is a cell of the buffer
Buffer_contains(b, x, y) ==
    /\ x >= Rect_left(b.area) /\ x < Rect_right(b.area)
    /\ y >= Rect_top(b.area) /\ y < Rect_bottom(b.area)

\* Buffer::index_of, 1-based
Buffer_index_of(b, x, y) ==
    (y - b.area.y) * b.area.width + (x - b.area.x) + 1

\* Buffer::set_style(area, Style::default().bg(color))
Buffer_set_style(b, area, color) ==
    [b EXCEPT !.content =
        [i \in 1 .. Len(@) |->
            LET x == b.area.x + ((i - 1) % b.area.width)
                y == b.area.y + ((i - 1) \div b.area.width)
            IN  IF /\ y >= Rect_top(area) /\ y < Rect_bottom(area)
                   /\ x >= Rect_left(area) /\ x < Rect_right(area)
                THEN [@[i] EXCEPT !.bg = color]
                ELSE @[i]]]

\* buf.get_mut(x, y).set_char(ch), then set_fg / set_bg for the colours that
\* are not Color::Reset; a cell outside of the buffer is not written
Buffer_set_cell(b, x, y, ch, colors) ==
    IF ~Buffer_contains(b, x, y) THEN b
    ELSE [b EXCEPT !.content[Buffer_index_of(b, x, y)] =
            Cell(ch,
                 IF colors[1] # "Reset" THEN colors[1] ELSE @.fg,
                 IF colors[2] # "Reset" THEN colors[2] ELSE @.bg)]

\* Buffer::set_line(x, y, line, width): at most width characters of the line
\* from (x, y) on, those outside of the buffer dropped
Buffer_set_line(b, x, y, line, width) ==
    [b EXCEPT !.content =
        [i \in 1 .. Len(@) |->
            LET cx == b.area.x + ((i - 1) % b.area.width)
                cy == b.area.y + ((i - 1) \div b.area.width)
                k == cx - x + 1
            IN  IF cy = y /\ k >= 1 /\ k <= Len(line) /\ k <= width
                THEN [@[i] EXCEPT !.symbol = line[k]]
                ELSE @[i]]]

\* the result of a render: the buffer and "ok" or the panic message
Outcome(b, st) == [buf |-> b, status |-> st]

\* a character of a layer that render draws
IsDrawn(ch) == ch # SPACE /\ ch # braille_BLANK

\* index % width panics for a drawn character of some layer
DrawLayers_panics(layers, width) ==
    /\ width = 0
    /\ \E k \in 1 .. Len(layers) : \E i \in 1 .. Len(layers[k].string) :
         IsDrawn(layers[k].string[i])

RECURSIVE DrawLayer(_, _, _, _, _)
\* the characters of a layer, from the 0-based index on, into the buffer
DrawLayer(b, lay, index, width, canvas_area) ==
    IF index >= Min(Len(lay.string), Len(lay.colors)) THEN b
    ELSE LET ch == lay.string[index + 1]
             x == (index % width) + Rect_left(canvas_area)
             y == (index \div width) + Rect_top(canvas_area)
         IN  DrawLayer(IF IsDrawn(ch)
                       THEN Buffer_set_cell(b, x, y, ch, lay.colors[index + 1])
                       ELSE b,
                       lay, index + 1, width, canvas_area)

RECURSIVE DrawLayers(_, _, _, _, _)
\* for layer in ctx.layers, from the k-th on
DrawLayers(b, layers, k, width, canvas_area) ==
    IF k > Len(layers) THEN b
    ELSE DrawLayers(DrawLayer(b, layers[k], 0, width, canvas_area),
                    layers, k + 1, width, canvas_area)

RECURSIVE DrawLabels(_, _, _, _, _, _, _)
\* for label in ctx.labels, from the i-th on, filtered by the bounds
DrawLabels(b, labels, i, canvas, canvas_area, resolution, build) ==
    IF i > Len(labels) THEN Outcome(b, "ok")
    ELSE
      LET label == labels[i]
          left == canvas.x_bounds[1]
          right == canvas.x_bounds[2]
          top == canvas.y_bounds[2]
          bottom == canvas.y_bounds[1]
          width == Abs(canvas.x_bounds[2] - canvas.x_bounds[1])
          height == Abs(canvas.y_bounds[2] - canvas.y_bounds[1])
          xc == CastU16((label.x - left) * resolution[1], width)
          yc == CastU16((top - label.y) * resolution[2], height)
          x == WrappingAdd(xc, Rect_left(canvas_area))
          y == WrappingAdd(yc, Rect_top(canvas_area))
      IN  IF ~(label.x >= left /\ label.x <= right /\ label.y <= top /\ label.y >= bottom)
          THEN DrawLabels(b, labels, i + 1, canvas, canvas_area, resolution, build)
          ELSE IF build = "debug"
                  /\ (AddOverflows(xc, Rect_left(canvas_area))
                      \/ AddOverflows(yc, Rect_top(canvas_area)))
          THEN Outcome(b, "attempt to add with overflow")
          ELSE IF build = "debug" /\ SubOverflows(Rect_right(canvas_area), x)
          THEN Outcome(b, "attempt to subtract with overflow")
          ELSE DrawLabels(Buffer_set_line(b, x, y, label.line,
                                          WrappingSub(Rect_right(canvas_area), x)),
                          labels, i + 1, canvas, canvas_area, resolution, build)

Canvas(x_bounds, y_bounds, paint_func, background_color, marker) ==
    [x_bounds |-> x_bounds, y_bounds |-> y_bounds, paint_func |-> paint_func,
     background_color |-> background_color, marker |-> marker]

\* Option<F> for the paint closure, a closure given as the calls it makes
NoPaintFunc == [some |-> FALSE, program |-> <<>>]

PaintFunc(program) == [some |-> TRUE, program |-> program]

\* Canvas::default()
Canvas_default == Canvas(<<0, 0>>, <<0, 0>>, NoPaintFunc, "Reset", "Braille")

\* impl Widget for Canvas: render of a canvas without a block
Canvas_render(canvas, area, b, build) ==
    LET canvas_area == area
        styled == Buffer_set_style(b, canvas_area, canvas.background_color)
        width == canvas_area.width
    IN  IF ~canvas.paint_func.some THEN Outcome(styled, "ok")
        ELSE
          LET painted == RunPaintFunc(Context_new(canvas_area.width, canvas_area.height,
                                                  canvas.x_bounds, canvas.y_bounds,
                                                  canvas.marker),
                                      canvas.paint_func.program, 1)
              ctx == Context_finish(painted.ctx)
              drawn == DrawLayers(styled, ctx.layers, 1, width, canvas_area)
              resolution == <<WrappingSub(canvas_area.width, 1),
                              WrappingSub(canvas_area.height, 1)>>
          IN  IF painted.panicked THEN Outcome(styled, "index out of bounds")
              ELSE IF DrawLayers_panics(ctx.layers, width)
              THEN Outcome(styled, "attempt to calculate the remainder with a divisor of zero")
              ELSE IF build = "debug"
                      /\ (SubOverflows(canvas_area.width, 1)
                          \/ SubOverflows(canvas_area.height, 1))
              THEN Outcome(drawn, "attempt to subtract with overflow")
              ELSE DrawLabels(drawn, ctx.labels, 1, canvas, canvas_area, resolution, build)

\* the area of the buffer the canvases are rendered into
BufferArea == Rect(0, 0, MaxGridWidth + 1, MaxGridWidth + 1)

\* the areas given to render, all inside the buffer
CanvasAreas ==
    { Rect(x, y, w, h) : x \in {0, 1}, y \in {0, 1},
                         w \in 0 .. MaxGridWidth, h \in 0 .. MaxGridWidth }

\* the canvases rendered
Canvases ==
    { Canvas(bounds, bounds, f, "Reset", m) :
        bounds \in BoundsVals, m \in Markers,
        f \in {NoPaintFunc} \cup { PaintFunc(p) : p \in Programs } }

CanvasCall(name, canvas, area, build) ==
    [op |-> name, canvas |-> canvas, area |-> area, build |-> build]

NoRender == CanvasCall("none", Canvas_default, RectDefault, "debug")

CanvasInit ==
    /\ buf = Buffer_empty(BufferArea)
    /\ canvasCall = NoRender
    /\ canvasStatus = "ok"

\* canvas.render(area, &mut buf)
Render ==
    /\ canvasCall.op = "none"
    /\ \E canvas \in Canvases, area \in CanvasAreas, build \in Builds :
         LET outcome == Canvas_render(canvas, area, buf, build)
         IN  /\ canvasCall' = CanvasCall("render", canvas, area, build)
             /\ buf' = outcome.buf
             /\ canvasStatus' = outcome.status
    /\ UNCHANGED notCanvas

CanvasNext ==
    \/ Render

CanvasIdle == CanvasInit

(***************************************************************************)
(* The Rows and Columns iterators (rect.rs).                                *)
(***************************************************************************)
\* struct Rows { rect, current_row } and struct Columns { rect,
\* current_column }: current is the row or the column
RectIter(kind, r, current) == [kind |-> kind, rect |-> r, current |-> current]

\* Rect::rows
Rect_rows(r) == RectIter("rows", r, r.y)

\* Rect::columns
Rect_columns(r) == RectIter("columns", r, r.x)

\* Rows::next returns None
Rows_next_is_none(it) == it.current >= Rect_bottom(it.rect)

\* the item Rows::next returns
Rows_next_item(it) == Rect_new(it.rect.x, it.current, it.rect.width, 1)

\* Columns::next returns None
Columns_next_is_none(it) == it.current >= Rect_right(it.rect)

\* the item Columns::next returns
Columns_next_item(it) == Rect_new(it.current, it.rect.y, 1, it.rect.height)

\* the rects iterated: at the origin and at the far end of the coordinates
IterRects ==
    { Rect_new(x, y, w, h) : x \in {0, 1, U16MAX - 1, U16MAX},
                             y \in {0, 1, U16MAX - 1, U16MAX},
                             w \in 0 .. MaxSmall, h \in 0 .. MaxSmall }

\* the calls of next() that are made after the first None
MoreCalls == 2

IterInit ==
    /\ \E r \in IterRects : iter \in {Rect_rows(r), Rect_columns(r)}
    /\ items = <<>>
    /\ nNone = 0
    /\ iterStatus = "ok"

\* rows.next()
RowsNext ==
    /\ iter.kind = "rows"
    /\ iterStatus = "ok"
    /\ nNone <= MoreCalls
    /\ IF Rows_next_is_none(iter)
       THEN nNone' = nNone + 1 /\ UNCHANGED <<iter, items, iterStatus>>
       ELSE /\ items' = Append(items, Rows_next_item(iter))
            /\ IF AddOverflows(iter.current, 1)
               THEN iterStatus' = "attempt to add with overflow" /\ UNCHANGED iter
               ELSE iter' = [iter EXCEPT !.current = @ + 1] /\ UNCHANGED iterStatus
            /\ UNCHANGED nNone
    /\ UNCHANGED notIter

\* columns.next()
ColumnsNext ==
    /\ iter.kind = "columns"
    /\ iterStatus = "ok"
    /\ nNone <= MoreCalls
    /\ IF Columns_next_is_none(iter)
       THEN nNone' = nNone + 1 /\ UNCHANGED <<iter, items, iterStatus>>
       ELSE /\ items' = Append(items, Columns_next_item(iter))
            /\ IF AddOverflows(iter.current, 1)
               THEN iterStatus' = "attempt to add with overflow" /\ UNCHANGED iter
               ELSE iter' = [iter EXCEPT !.current = @ + 1] /\ UNCHANGED iterStatus
            /\ UNCHANGED nNone
    /\ UNCHANGED notIter

IterNext ==
    \/ RowsNext
    \/ ColumnsNext

\* the iterator of a program that iterates over no rect
IterIdle ==
    /\ iter = Rect_rows(RectDefault)
    /\ items = <<>>
    /\ nNone = 0
    /\ iterStatus = "ok"

(***************************************************************************)
(* Chart::layout and LegendPosition::layout (ch.rs).  Texts are kept as  *)
(* their widths.                                                            *)
(***************************************************************************)
\* struct Axis: the title (Option of its width), the labels (Option of the
\* list of their widths) and the alignment of the labels
Axis(title, labels, labels_alignment) ==
    [title |-> title, labels |-> labels, labels_alignment |-> labels_alignment]

\* the Chart fields layout reads; a dataset is the Option of its name's width
ChartOf(datasets, x_axis, y_axis, legend_position, constraints) ==
    [datasets |-> datasets, x_axis |-> x_axis, y_axis |-> y_axis,
     legend_position |-> legend_position, hidden_legend_constraints |-> constraints]

\* enum LegendPosition
LegendPositions ==
    {"Top", "TopRight", "TopLeft", "Left", "Right", "Bottom", "BottomRight", "BottomLeft"}

\* struct ChartLayout
ChartLayoutOf(title_x, title_y, label_x, label_y, axis_x, axis_y, legend_area, graph_area) ==
    [title_x |-> title_x, title_y |-> title_y, label_x |-> label_x, label_y |-> label_y,
     axis_x |-> axis_x, axis_y |-> axis_y, legend_area |-> legend_area,
     graph_area |-> graph_area]

\* ChartLayout::default()
ChartLayout_default ==
    ChartLayoutOf(None, None, None, None, None, None, None, RectDefault)

\* the maximum of a list of widths, 0 for the empty list
MaxOf(ws) == IF ws = <<>> THEN 0 ELSE CHOOSE m \in { ws[i] : i \in 1 .. Len(ws) } :
                                          \A i \in 1 .. Len(ws) : ws[i] <= m

\* the length a Layout of the one constraint c with Flex::Start gives its
\* segment in an area of the given length
Constraint_apply(c, length) ==
    CASE c.kind = "Length" -> Min(c.a, length)
      [] c.kind = "Percentage" -> Min((length * c.a + 50) \div 100, length)
      [] c.kind = "Ratio" -> IF c.b = 0 THEN 0 ELSE Min((length * c.a) \div c.b, length)
      [] c.kind = "Max" -> Min(c.a, length)
      [] c.kind = "Min" -> length
      [] c.kind = "Fill" -> IF c.a = 0 THEN 0 ELSE length

\* let [rect] = area.split(&Layout::horizontal([c]).flex(Flex::Start)), and
\* the same for Layout::vertical
Layout_split_one(direction, c, area) ==
    IF direction = "Horizontal"
    THEN Rect(area.x, area.y, Constraint_apply(c, area.width), area.height)
    ELSE Rect(area.x, area.y, area.width, Constraint_apply(c, area.height))

\* LegendPosition::layout
LegendPosition_layout(position, area, legend_width, legend_height, x_title_width, y_title_width) ==
    LET height_margin == (area.height - legend_height)
                         - (IF x_title_width # 0 THEN 1 ELSE 0)
                         - (IF y_title_width # 0 THEN 1 ELSE 0)
        side_y == LET y0 == (area.height - legend_height) \div 2
                      y1 == IF y_title_width # 0 THEN y0 + 1 ELSE y0
                  IN  IF x_title_width # 0 THEN SatSub(y1, 1) ELSE y1
        xy ==
          CASE position = "TopRight" ->
                 IF legend_width + y_title_width > area.width
                 THEN <<Rect_right(area) - legend_width, Rect_top(area) + 1>>
                 ELSE <<Rect_right(area) - legend_width, Rect_top(area)>>
            [] position = "TopLeft" ->
                 IF y_title_width # 0
                 THEN <<Rect_left(area), Rect_top(area) + 1>>
                 ELSE <<Rect_left(area), Rect_top(area)>>
            [] position = "Top" ->
                 LET x == (area.width - legend_width) \div 2
                 IN  IF Rect_left(area) + y_title_width > x
                     THEN <<Rect_left(area) + x, Rect_top(area) + 1>>
                     ELSE <<Rect_left(area) + x, Rect_top(area)>>
            [] position = "Left" -> <<Rect_left(area), Rect_top(area) + side_y>>
            [] position = "Right" ->
                 <<Rect_right(area) - legend_width, Rect_top(area) + side_y>>
            [] position = "BottomLeft" ->
                 IF x_title_width + legend_width > area.width
                 THEN <<Rect_left(area), Rect_bottom(area) - legend_height - 1>>
                 ELSE <<Rect_left(area), Rect_bottom(area) - legend_height>>
            [] position = "BottomRight" ->
                 IF x_title_width # 0
                 THEN <<Rect_right(area) - legend_width,
                        Rect_bottom(area) - legend_height - 1>>
                 ELSE <<Rect_right(area) - legend_width, Rect_bottom(area) - legend_height>>
            [] position = "Bottom" ->
                 LET x == Rect_left(area) + (area.width - legend_width) \div 2
                 IN  IF x + legend_width > Rect_right(area) - x_title_width
                     THEN <<x, Rect_bottom(area) - legend_height - 1>>
                     ELSE <<x, Rect_bottom(area) - legend_height>>
    IN  IF height_margin < 0 THEN None
        ELSE Some(Rect_new(xy[1], xy[2], legend_width, legend_height))

\* Chart::max_width_of_labels_left_of_y_axis
Chart_max_width_of_labels_left_of_y_axis(ch, area, has_y_axis) ==
    LET y_width == IF ch.y_axis.labels = None THEN 0 ELSE MaxOf(ch.y_axis.labels[1])
        first_label_width ==
            IF ch.x_axis.labels = None \/ ch.x_axis.labels = Some(<<>>)
            THEN None ELSE Some(ch.x_axis.labels[1][1])
        width_left_of_y_axis ==
            CASE first_label_width = None -> 0
              [] ch.x_axis.labels_alignment = "Left" ->
                   SatSub(first_label_width[1], IF has_y_axis THEN 1 ELSE 0)
              [] ch.x_axis.labels_alignment = "Center" -> first_label_width[1] \div 2
              [] ch.x_axis.labels_alignment = "Right" -> 0
    IN  Min(Max(y_width, width_left_of_y_axis), area.width \div 3)

\* the datasets of a chart, one without a name counted as one named ""
Chart_legends_all(ch) ==
    [i \in 1 .. Len(ch.datasets) |->
        IF ch.datasets[i] = None THEN Some(0) ELSE ch.datasets[i]]

\* the widths of the names of the datasets that have one
Chart_legends(ch) ==
    SelectSeq(ch.datasets, LAMBDA d : d # None)

\* Chart::layout: the legend area
Chart_layout_legend(ch, graph_area, title_x, title_y) ==
    IF ch.legend_position = None \/ Chart_legends(ch) = <<>> THEN None
    ELSE
      LET inner_width == MaxOf([i \in 1 .. Len(Chart_legends(ch)) |->
                                   Chart_legends(ch)[i][1]])
          legend_width == inner_width + 2
          legend_height == Len(Chart_legends(ch)) + 2
          max_legend_width ==
              Layout_split_one("Horizontal", ch.hidden_legend_constraints[1], graph_area)
          max_legend_height ==
              Layout_split_one("Vertical", ch.hidden_legend_constraints[2], graph_area)
      IN  IF /\ inner_width > 0
             /\ legend_width <= max_legend_width.width
             /\ legend_height <= max_legend_height.height
          THEN LegendPosition_layout(
                   ch.legend_position[1], graph_area, legend_width, legend_height,
                   IF title_x # None /\ ch.x_axis.title # None
                   THEN ch.x_axis.title[1] ELSE 0,
                   IF title_y # None /\ ch.y_axis.title # None
                   THEN ch.y_axis.title[1] ELSE 0)
          ELSE None

\* Chart::layout
Chart_layout(ch, area) ==
    IF area.height = 0 \/ area.width = 0 THEN ChartLayout_default
    ELSE
      LET has_x == ch.x_axis.labels # None
          has_y == ch.y_axis.labels # None
          x0 == Rect_left(area)
          y0 == Rect_bottom(area) - 1
          label_x == IF has_x /\ y0 > Rect_top(area) THEN Some(y0) ELSE None
          y1 == IF label_x # None THEN y0 - 1 ELSE y0
          label_y == IF has_y THEN Some(x0) ELSE None
          x1 == x0 + Chart_max_width_of_labels_left_of_y_axis(ch, area, has_y)
          axis_x == IF has_x /\ y1 > Rect_top(area) THEN Some(y1) ELSE None
          y == IF axis_x # None THEN y1 - 1 ELSE y1
          axis_y == IF has_y /\ x1 + 1 < Rect_right(area) THEN Some(x1) ELSE None
          x == IF axis_y # None THEN x1 + 1 ELSE x1
          graph_area ==
              IF x < Rect_right(area) /\ y > 1
              THEN Rect_new(x, Rect_top(area), Rect_right(area) - x, y - Rect_top(area) + 1)
              ELSE RectDefault
          title_x ==
              IF /\ ch.x_axis.title # None
                 /\ ch.x_axis.title[1] < graph_area.width
                 /\ graph_area.height > 2
              THEN Some(<<x + graph_area.width - ch.x_axis.title[1], y>>)
              ELSE None
          title_y ==
              IF /\ ch.y_axis.title # None
                 /\ ch.y_axis.title[1] + 1 < graph_area.width
                 /\ graph_area.height > 2
              THEN Some(<<x, Rect_top(area)>>)
              ELSE None
      IN  ChartLayoutOf(title_x, title_y, label_x, label_y, axis_x, axis_y,
                        Chart_layout_legend(ch, graph_area, title_x, title_y),
                        graph_area)

\* the names given to datasets: none, "", and names 1 and 2 wide
DatasetLists ==
    {<<>>, <<None>>, <<Some(0)>>, <<Some(1)>>, <<Some(2)>>, <<Some(1), Some(0)>>,
     <<Some(2), None, Some(0)>>, <<None, None, None>>}

\* the axes given to charts: with and without a title, with and without labels
XAxes == { Axis(title, labels, "Left") : title \in {None, Some(1)},
                                         labels \in {None, Some(<<2, 1>>)} }

YAxes == { Axis(title, None, "Left") : title \in {None, Some(1)} }
         \cup {Axis(None, Some(<<1>>), "Left")}

\* the hidden_legend_constraints given to charts: the default ones of
\* Chart::new and two that let a legend fill the graph area
HiddenLegendConstraints ==
    {<<Ratio(1, 4), Ratio(1, 4)>>, <<Percentage(100), Percentage(100)>>,
     <<Length(3), Percentage(100)>>}

Charts ==
    { ChartOf(ds, xa, ya, lp, cs) :
        ds \in DatasetLists, xa \in XAxes, ya \in YAxes,
        lp \in {None} \cup { Some(p) : p \in LegendPositions },
        cs \in HiddenLegendConstraints }

\* the areas given to Chart::layout
ChartAreas ==
    { Rect(x, y, w, h) : x \in {0, 3}, y \in {0, 2},
                         w \in 0 .. MaxChartSize, h \in 0 .. MaxChartSize }

LayoutCall(name, c, area) == [op |-> name, chart |-> c, area |-> area]

NoLayoutCall ==
    LayoutCall("none",
               ChartOf(<<>>, Axis(None, None, "Left"), Axis(None, None, "Left"),
                       Some("TopRight"), Chart_new.hidden_legend_constraints),
               RectDefault)

LayoutInit ==
    /\ layoutCall = NoLayoutCall
    /\ chartLayout = ChartLayout_default

\* ch.layout(area)
ChartLayoutCall ==
    /\ layoutCall.op = "none"
    /\ \E c \in Charts, area \in ChartAreas :
         /\ layoutCall' = LayoutCall("layout", c, area)
         /\ chartLayout' = Chart_layout(c, area)
    /\ UNCHANGED notLayout

LayoutNext ==
    \/ ChartLayoutCall

LayoutIdle == LayoutInit

(***************************************************************************)
(* Rendering the rows of a Table (table.rs).  The cells of the rows are not *)
(* modelled: a rendered row is recorded as its area and whether the         *)
(* highlight symbol was drawn in it.                                        *)
(***************************************************************************)
\* struct Row: the fields the table reads
Row(height, top_margin, bottom_margin) ==
    [height |-> height, top_margin |-> top_margin, bottom_margin |-> bottom_margin]

\* Row::height_with_margin
Row_height_with_margin(row) ==
    SatAdd(SatAdd(row.height, row.top_margin), row.bottom_margin)

\* struct TableState; selected is an Option
TableState(first, selected) == [offset |-> first, selected |-> selected]

\* TableState::default()
TableState_default == TableState(0, None)

\* the Table fields rendering the rows reads; highlight_symbol is its width
TableOf(rows, highlight_symbol, highlight_spacing) ==
    [rows |-> rows, highlight_symbol |-> highlight_symbol,
     highlight_spacing |-> highlight_spacing]

\* enum HighlightSpacing
HighlightSpacings == {"Always", "WhenSelected", "Never"}

\* HighlightSpacing::should_add
HighlightSpacing_should_add(spacing, has_selection) ==
    CASE spacing = "Always" -> TRUE
      [] spacing = "WhenSelected" -> has_selection
      [] spacing = "Never" -> FALSE

\* Table::selection_width reserving the width whatever the spacing says
Table_selection_width_always(tbl, state) == tbl.highlight_symbol % (U16MAX + 1)

\* Table::selection_width
Table_selection_width(tbl, state) ==
    IF HighlightSpacing_should_add(tbl.highlight_spacing, state.selected # None)
    THEN tbl.highlight_symbol % (U16MAX + 1)
    ELSE 0

\* the state of the loops of get_row_bounds
Bounds(start, end, height, panic) ==
    [start |-> start, end |-> end, height |-> height, panic |-> panic]

RECURSIVE FitRows(_, _, _, _, _)
\* get_row_bounds: for item in self.rows.iter().skip(offset), from the i-th
\* row (1-based) on; height + item.height and height += ... are plain u16
\* additions, which panic on overflow in a build with overflow checks and
\* wrap in one without
FitRows(rows, i, max_height, build, s) ==
    IF i > Len(rows) THEN s
    ELSE IF AddOverflows(s.height, rows[i].height) /\ build = "debug"
    THEN [s EXCEPT !.panic = "attempt to add with overflow"]
    ELSE IF WrappingAdd(s.height, rows[i].height) > max_height THEN s
    ELSE IF AddOverflows(s.height, Row_height_with_margin(rows[i])) /\ build = "debug"
    THEN [s EXCEPT !.panic = "attempt to add with overflow"]
    ELSE FitRows(rows, i + 1, max_height, build,
                 [s EXCEPT !.height = WrappingAdd(@, Row_height_with_margin(rows[i])),
                           !.end = @ + 1])

RECURSIVE DropFront(_, _, _)
\* get_row_bounds: while height > max_height { height -= rows[start]; start += 1 }
DropFront(rows, max_height, s) ==
    IF s.panic # "" \/ ~(s.height > max_height) THEN s
    ELSE IF s.start >= Len(rows) THEN [s EXCEPT !.panic = "index out of bounds"]
    ELSE DropFront(rows, max_height,
                   [s EXCEPT !.height = SatSub(@, Row_height_with_margin(rows[s.start + 1])),
                             !.start = @ + 1])

RECURSIVE GrowToSelected(_, _, _, _)
\* get_row_bounds: while selected >= end
GrowToSelected(rows, selected, max_height, s) ==
    IF s.panic # "" \/ ~(selected >= s.end) THEN s
    ELSE IF s.end >= Len(rows) THEN [s EXCEPT !.panic = "index out of bounds"]
    ELSE GrowToSelected(rows, selected, max_height,
             DropFront(rows, max_height,
                 [s EXCEPT !.height = SatAdd(@, Row_height_with_margin(rows[s.end + 1])),
                           !.end = @ + 1]))

RECURSIVE DropBack(_, _, _)
\* get_row_bounds: while height > max_height { end -= 1; height -= rows[end] }
DropBack(rows, max_height, s) ==
    IF s.panic # "" \/ ~(s.height > max_height) THEN s
    ELSE IF s.end = 0 THEN [s EXCEPT !.panic = "attempt to subtract with overflow"]
    ELSE IF s.end - 1 >= Len(rows) THEN [s EXCEPT !.panic = "index out of bounds"]
    ELSE DropBack(rows, max_height,
                  [s EXCEPT !.height = SatSub(@, Row_height_with_margin(rows[s.end])),
                            !.end = @ - 1])

RECURSIVE BackToSelected(_, _, _, _)
\* get_row_bounds: while selected < start
BackToSelected(rows, selected, max_height, s) ==
    IF s.panic # "" \/ ~(selected < s.start) THEN s
    ELSE IF s.start - 1 >= Len(rows) THEN [s EXCEPT !.panic = "index out of bounds"]
    ELSE BackToSelected(rows, selected, max_height,
             DropBack(rows, max_height,
                 [s EXCEPT !.height = SatAdd(@, Row_height_with_margin(rows[s.start])),
                           !.start = @ - 1]))

\* get_row_bounds stopping after its first loop: the rows that fit from offset on
Table_get_row_bounds_fitted(rows, selected, offset0, max_height, build) ==
    LET first == Min(offset0, SatSub(Len(rows), 1))
    IN  FitRows(rows, first + 1, max_height, build, Bounds(first, first, 0, ""))

\* Table::get_row_bounds, for a non-empty list of rows; selected is an Option
Table_get_row_bounds(rows, selected, offset0, max_height, build) ==
    LET first == Min(offset0, SatSub(Len(rows), 1))
        fitted == FitRows(rows, first + 1, max_height, build,
                          Bounds(first, first, 0, ""))
        sel == Min(IF selected = None THEN 0 ELSE selected[1], Len(rows) - 1)
    IN  BackToSelected(rows, sel, max_height,
                       GrowToSelected(rows, sel, max_height, fitted))

\* a row render_rows drew
RenderedRow(i, row_area, symbol) == [i |-> i, row_area |-> row_area, symbol |-> symbol]

RECURSIVE DrawRows(_, _, _, _, _, _, _)
\* render_rows: the loop over the rows start_index .. end_index, from the
\* 0-based index i on
DrawRows(tbl, area, state, selection_width, i, end_index, y_offset) ==
    IF i >= end_index \/ i >= Len(tbl.rows) THEN <<>>
    ELSE LET row == tbl.rows[i + 1]
             row_area == Rect_new(area.x, area.y + y_offset + row.top_margin, area.width,
                                  Row_height_with_margin(row) - row.top_margin)
             is_selected == state.selected # None /\ state.selected[1] = i
         IN  <<RenderedRow(i, row_area, selection_width > 0 /\ is_selected)>>
             \o DrawRows(tbl, area, state, selection_width, i + 1, end_index,
                         y_offset + Row_height_with_margin(row))

\* the result of a render
Rendered(state, selection_width, rows, st) ==
    [state |-> state, selection_width |-> selection_width, rows |-> rows, status |-> st]

\* impl StatefulWidget for Table: render of a table without block, header
\* and footer, whose rows area is the whole area
Table_render(tbl, area, state, build) ==
    IF Rect_is_empty(area) THEN Rendered(state, 0, <<>>, "ok")
    ELSE
      LET selection_width == Table_selection_width(tbl, state)
          bounds == Table_get_row_bounds(tbl.rows, state.selected, state.offset,
                                         area.height, build)
          scrolled == [state EXCEPT !.offset = bounds.start]
      IN  IF tbl.rows = <<>> THEN Rendered(state, selection_width, <<>>, "ok")
          ELSE IF bounds.panic # "" THEN Rendered(state, selection_width, <<>>, bounds.panic)
          ELSE Rendered(scrolled, selection_width,
                        DrawRows(tbl, area, scrolled, selection_width,
                                 bounds.start, bounds.end, 0),
                        "ok")

\* the rows given to tables
RowVals == {Row(1, 0, 0), Row(2, 0, 0), Row(1, 0, 1), Row(1, 1, 0)}

Tables ==
    { TableOf(rows, symbol, spacing) :
        rows \in SeqsUpTo(RowVals, MaxRows), symbol \in {0, 2},
        spacing \in HighlightSpacings }

\* the states given to render: no selection, every row, and one past the end
TableStates ==
    { TableState(first, selected) :
        first \in 0 .. MaxRows,
        selected \in {None} \cup { Some(i) : i \in 0 .. MaxRows } }

TableAreas == { Rect(0, 1, w, h) : w \in {0, 3}, h \in 0 .. MaxRows }

RenderCall(name, tbl, state, area, build) ==
    [op |-> name, table |-> tbl, state |-> state, area |-> area, build |-> build]

NoRenderCall ==
    RenderCall("none", TableOf(<<>>, 0, "WhenSelected"), TableState_default, RectDefault,
               "debug")

RenderInit ==
    /\ renderCall = NoRenderCall
    /\ tableState = TableState_default
    /\ selectionWidth = 0
    /\ rendered = <<>>
    /\ renderStatus = "ok"

\* StatefulWidget::render(table, area, buf, &mut state)
TableRender ==
    /\ renderCall.op = "none"
    /\ \E tbl \in Tables, state \in TableStates, area \in TableAreas :
       \E build \in Builds :
         LET result == Table_render(tbl, area, state, build)
         IN  /\ renderCall' = RenderCall("render", tbl, state, area, build)
             /\ tableState' = result.state
             /\ selectionWidth' = result.selection_width
             /\ rendered' = result.rows
             /\ renderStatus' = result.status
    /\ UNCHANGED notRender

RenderNext ==
    \/ TableRender

RenderIdle == RenderInit

(***************************************************************************)
(* Table::get_row_bounds called on its own, with rows of height 0, rows      *)
(* taller than max_height and rows as high as the u16 range.                 *)
(***************************************************************************)
\* the rows given to get_row_bounds
BoundsRowVals == RowVals \cup {Row(0, 0, 0), Row(U16MAX, 0, 0)}

\* the row lists given to get_row_bounds: never empty, as render_rows returns
\* before the call for a table without rows
BoundsRowLists == SeqsUpTo(BoundsRowVals, MaxRows) \ {<<>>}

\* no selection, every row, and one past the end
BoundsSelections == {None} \cup { Some(i) : i \in 0 .. MaxRows }

\* every offset, the ones past the end included
BoundsOffsets == 0 .. MaxRows

BoundsHeights == {0, 1, 2, 3, U16MAX}

BoundsCall(name, rows, selected, first, max_height, build) ==
    [op |-> name, rows |-> rows, selected |-> selected, offset |-> first,
     max_height |-> max_height, build |-> build]

NoBoundsCall == BoundsCall("none", <<>>, None, 0, 0, "debug")

BoundsInit ==
    /\ boundsCall = NoBoundsCall
    /\ rowBounds = Bounds(0, 0, 0, "")

\* table.get_row_bounds(selected, offset, max_height)
GetRowBounds ==
    /\ boundsCall.op = "none"
    /\ \E rows \in BoundsRowLists, selected \in BoundsSelections,
          first \in BoundsOffsets, max_height \in BoundsHeights, build \in Builds :
         /\ boundsCall' = BoundsCall("get_row_bounds", rows, selected, first,
                                     max_height, build)
         /\ rowBounds' = Table_get_row_bounds(rows, selected, first, max_height, build)
    /\ UNCHANGED notBounds

BoundsNext ==
    \/ GetRowBounds

BoundsIdle == BoundsInit

(***************************************************************************)
(* Rendering a Text (text.rs).  A line is its width and its own alignment;  *)
(* a rendered line is recorded as the area Text::render gives it.           *)
(***************************************************************************)
\* enum Alignment
Alignments == {"Left", "Center", "Right"}

\* struct Line: the fields Text::render reads; alignment is an Option
Line(width, alignment) == [width |-> width, alignment |-> alignment]

\* struct Text; alignment is an Option
Text(lines, alignment) == [lines |-> lines, alignment |-> alignment]

\* Text::render: x_offset
Text_x_offset(text_alignment, line_alignment, area_width, line_width) ==
    CASE text_alignment = Some("Center") /\ line_alignment = None ->
           SatSub(area_width, line_width) \div 2
      [] text_alignment = Some("Right") /\ line_alignment = None ->
           SatSub(area_width, line_width)
      [] OTHER -> 0

\* a line Text::render rendered
DrawnLine(i, line_area) == [i |-> i, line_area |-> line_area]

\* what Text::render did
TextDrawn(drawn, st) == [drawn |-> drawn, status |-> st]

RECURSIVE Text_render_from(_, _, _, _)
\* Text::render: for (line, row) in self.lines.into_iter().zip(area.rows()),
\* from the line of 0-based index i on
Text_render_from(text, area, build, i) ==
    LET it == RectIter("rows", area, area.y + i)
    IN  IF i >= Len(text.lines) \/ Rows_next_is_none(it) THEN TextDrawn(<<>>, "ok")
        ELSE
          LET line == text.lines[i + 1]
              row == Rows_next_item(it)
              line_width == line.width % (U16MAX + 1)
              x_offset == Text_x_offset(text.alignment, line.alignment, area.width,
                                        line_width)
              line_area == Rect(WrappingAdd(area.x, x_offset), row.y,
                                area.width - x_offset, 1)
              rest == Text_render_from(text, area, build, i + 1)
          IN  IF AddOverflows(area.x, x_offset) /\ build = "debug"
              THEN TextDrawn(<<>>, "attempt to add with overflow")
              ELSE TextDrawn(<<DrawnLine(i, line_area)>> \o rest.drawn, rest.status)

\* impl Widget for Text: render
Text_render(text, area, build) == Text_render_from(text, area, build, 0)

LineVals ==
    { Line(width, alignment) :
        width \in {1, 4},
        alignment \in {None} \cup { Some(a) : a \in Alignments } }

Texts ==
    { Text(lines, alignment) :
        lines \in SeqsUpTo(LineVals, MaxLines),
        alignment \in {None} \cup { Some(a) : a \in Alignments } }

\* areas at the origin, off the origin and at the end of the u16 range
TextAreas ==
    { Rect_new(x, y, w, h) :
        x \in {0, 2, U16MAX - 1}, y \in {0, U16MAX - 1}, w \in {0, 2, 3, 6},
        h \in 0 .. MaxLines }

TextCall(name, text, area, build) ==
    [op |-> name, text |-> text, area |-> area, build |-> build]

NoTextCall == TextCall("none", Text(<<>>, None), RectDefault, "debug")

TextInit ==
    /\ textCall = NoTextCall
    /\ textDrawn = <<>>
    /\ textStatus = "ok"

\* text.render(area, buf)
TextRender ==
    /\ textCall.op = "none"
    /\ \E text \in Texts, area \in TextAreas, build \in Builds :
         LET result == Text_render(text, area, build)
         IN  /\ textCall' = TextCall("render", text, area, build)
             /\ textDrawn' = result.drawn
             /\ textStatus' = result.status
    /\ UNCHANGED notText

TextNext ==
    \/ TextRender

TextIdle == TextInit

(***************************************************************************)
(* The demo2 application (examples/demo2/app.rs): App::run, step by step,   *)
(* with the outcomes of drawing and of reading an event chosen freely.      *)
(***************************************************************************)
\* enum Mode
Modes == {"Normal", "Destroy", "Quit"}

\* const TAB_COUNT in handle_key_event
TAB_COUNT == 5

\* struct AppContext
AppContext(tab_index, row_index) == [tab_index |-> tab_index, row_index |-> row_index]

\* struct App, without its term
App(context, mode) == [context |-> context, mode |-> mode]

\* the terminal as Term leaves it
TermOf(screen, started, stops) == [screen |-> screen, started |-> started, stops |-> stops]

\* Term::start, when it succeeds: raw mode and the alternate screen
Term_start(t) == [t EXCEPT !.screen = "raw", !.started = TRUE]

\* Term::stop: leaves raw mode and the alternate screen
Term_stop(t) == [t EXCEPT !.screen = "restored", !.stops = @ + 1]

\* impl Drop for Term
Term_drop(t) == Term_stop(t)

\* a panic hook that only reports the panic
panic_hook_default(t) == t

\* the hook set by install_panic_hook: let _ = Term::stop(); hook(info); exit(1)
panic_hook(t) == Term_stop(t)

\* crossterm KeyEvent: the fields handle_key_event reads
KeyEvent(kind, code, shift) == [kind |-> kind, code |-> code, shift |-> shift]

KeyCodes == {"q", "Esc", "Tab", "BackTab", "Up", "k", "Down", "j", "d", "x"}

KeyEvents ==
    { KeyEvent(kind, code, shift) :
        kind \in {"Press", "Release"}, code \in KeyCodes, shift \in BOOLEAN }

\* App::handle_key_event
App_handle_key_event(a, key) ==
    IF key.kind # "Press" THEN a
    ELSE CASE key.code \in {"q", "Esc"} -> [a EXCEPT !.mode = "Quit"]
           [] key.code \in {"Tab", "BackTab"} /\ key.shift ->
                [a EXCEPT !.context =
                    AppContext(SatSub(a.context.tab_index + TAB_COUNT, 1) % TAB_COUNT, 0)]
           [] key.code \in {"Tab", "BackTab"} /\ ~key.shift ->
                [a EXCEPT !.context =
                    AppContext((a.context.tab_index + 1) % TAB_COUNT, 0)]
           [] key.code \in {"Up", "k"} ->
                [a EXCEPT !.context.row_index = IF @ = 0 THEN 0 ELSE @ - 1]
           [] key.code \in {"Down", "j"} -> [a EXCEPT !.context.row_index = @ + 1]
           [] key.code = "d" -> [a EXCEPT !.mode = "Destroy"]
           [] OTHER -> a

\* App::should_quit
App_should_quit(a) == a.mode = "Quit"

AppInit ==
    /\ appPc = "install_panic_hook"
    /\ app = App(AppContext(0, 0), "Normal")
    /\ term = TermOf("cooked", FALSE, 0)
    /\ panicHook = FALSE
    /\ appResult = "running"

\* App::run: install_panic_hook()
InstallPanicHook ==
    /\ appPc = "install_panic_hook"
    /\ panicHook' = TRUE
    /\ appPc' = "new"
    /\ UNCHANGED <<app, term, appResult>>
    /\ UNCHANGED notApp

\* App::run: let mut app = Self::new()?, with Term::start succeeding or not
AppNew ==
    /\ appPc = "new"
    /\ \/ /\ term' = Term_start(term)
          /\ appPc' = "should_quit"
          /\ UNCHANGED appResult
       \/ /\ appPc' = "returned"
          /\ appResult' = "Err"
          /\ UNCHANGED term
    /\ UNCHANGED <<app, panicHook>>
    /\ UNCHANGED notApp

\* App::run: while !app.should_quit()
ShouldQuit ==
    /\ appPc = "should_quit"
    /\ appPc' = IF App_should_quit(app) THEN "stop" ELSE "draw"
    /\ UNCHANGED <<app, term, panicHook, appResult>>
    /\ UNCHANGED notApp

\* a step of the loop returns Err through `?`: run returns and app is dropped
ReturnErr ==
    /\ term' = Term_drop(term)
    /\ appPc' = "returned"
    /\ appResult' = "Err"

\* a step of the loop panics: the panic hook runs and the process exits; were
\* no hook set, the panic would unwind and drop app
Panic ==
    /\ term' = IF panicHook THEN panic_hook(term) ELSE Term_drop(term)
    /\ appPc' = "exited"
    /\ appResult' = IF panicHook THEN "exit(1)" ELSE "panicked"

\* App::run: app.draw()?
Draw ==
    /\ appPc = "draw"
    /\ \/ /\ appPc' = "handle_events"
          /\ UNCHANGED <<term, appResult>>
       \/ ReturnErr
       \/ Panic
    /\ UNCHANGED <<app, panicHook>>
    /\ UNCHANGED notApp

\* App::run: app.handle_events()?, for every outcome of Term::next_event: an
\* error, no event, a key, a resize that succeeds or fails, or a panic
HandleEvents ==
    /\ appPc = "handle_events"
    /\ \/ /\ \E key \in KeyEvents :
               /\ ~(key.kind = "Press" /\ key.code \in {"Down", "j"}
                    /\ app.context.row_index >= MaxRowIndex)
               /\ app' = App_handle_key_event(app, key)
          /\ appPc' = "should_quit"
          /\ UNCHANGED <<term, appResult>>
       \/ /\ appPc' = "should_quit"
          /\ UNCHANGED <<app, term, appResult>>
       \/ ReturnErr /\ UNCHANGED app
       \/ Panic /\ UNCHANGED app
    /\ UNCHANGED panicHook
    /\ UNCHANGED notApp

\* App::run: Term::stop()?; Ok(()), after which app is dropped
Stop ==
    /\ appPc = "stop"
    /\ term' = Term_drop(Term_stop(term))
    /\ appPc' = "returned"
    /\ \E result \in {"Ok", "Err"} : appResult' = result
    /\ UNCHANGED <<app, panicHook>>
    /\ UNCHANGED notApp

AppNext ==
    \/ InstallPanicHook
    \/ AppNew
    \/ ShouldQuit
    \/ Draw
    \/ HandleEvents
    \/ Stop

AppIdle == AppInit

(***************************************************************************)
(* Properties of the Rect operations.                                       *)
(***************************************************************************)
\* width * height <= u16::MAX, without forming the product
FitsArea(r) == r.height = 0 \/ r.width <= U16MAX \div r.height

\* the cells of a rect are those its rows() and columns() iterators visit:
\* x <= cx < right() and y <= cy < bottom(), right() and bottom() saturating
InRect(r, cx, cy) ==
    /\ r.x <= cx /\ cx < Rect_right(r)
    /\ r.y <= cy /\ cy < Rect_bottom(r)

\* the coordinates at and next to the given edges: membership in a rect built
\* from these edges can only change there
Around(edges) == { e + d : e \in edges, d \in {-1, 0, 1} } \cap (0 .. U16MAX)

\* C1: the Rect returned by Rect::new has width * height <= u16::MAX, so that
\* area() returns the exact product.
C1_NewAreaFits ==
    op = "new" =>
        /\ FitsArea(rect)
        /\ Rect_area(rect) = rect.width * rect.height

\* C1 witness: Rect::new was given 65535 x 65535 and clipped it to 255 x 255.
C1_Witness ==
    /\ op = "new"
    /\ arg.width = U16MAX /\ arg.height = U16MAX
    /\ rect.width = 255 /\ rect.height = 255

\* C2: every Rect the operations produce from Rects built by Rect::new has
\* width * height <= u16::MAX.
C2_AreaInvariantKept == FitsArea(rect)

\* C8: self.clamp(other) returns without failing a rect of the smaller size
\* that lies inside other, and returns a self that is inside other unchanged.
C8_ClampInsideOther ==
    op = "clamp" =>
        /\ status = "ok"
        /\ rect.width = Min(self.width, arg.width)
        /\ rect.height = Min(self.height, arg.height)
        /\ Rect_left(arg) <= rect.x
        /\ rect.x + rect.width <= Rect_right(arg)
        /\ Rect_top(arg) <= rect.y
        /\ rect.y + rect.height <= Rect_bottom(arg)
        /\ ( /\ Rect_left(arg) <= self.x
             /\ self.x + self.width <= Rect_right(arg)
             /\ Rect_top(arg) <= self.y
             /\ self.y + self.height <= Rect_bottom(arg) ) => rect = self

\* C9 as stated: inner yields a zero-area rect when a doubled margin exceeds
\* the dimension, and otherwise exactly
\* (x + horizontal, y + vertical, width - 2 horizontal, height - 2 vertical).
C9_InnerExact ==
    op = "inner" =>
        IF 2 * margin.horizontal > self.width \/ 2 * margin.vertical > self.height
        THEN Rect_is_empty(rect)
        ELSE rect = Rect(self.x + margin.horizontal,
                         self.y + margin.vertical,
                         self.width - 2 * margin.horizontal,
                         self.height - 2 * margin.vertical)

\* C9 amended: as C9, with x + horizontal and y + vertical saturating at
\* u16::MAX; every field of the result is a u16, and
\* Rect(1,2,3,4).inner(Margin(1,2)) = Rect(2,4,1,0).
C9_InnerSaturating ==
    /\ Rect_inner(Rect(1, 2, 3, 4), Margin(1, 2)) = Rect(2, 4, 1, 0)
    /\ op = "inner" =>
        /\ \A f \in {rect.x, rect.y, rect.width, rect.height} : f \in 0 .. U16MAX
        /\ IF 2 * margin.horizontal > self.width \/ 2 * margin.vertical > self.height
           THEN Rect_is_empty(rect)
           ELSE rect = Rect(Min(self.x + margin.horizontal, U16MAX),
                            Min(self.y + margin.vertical, U16MAX),
                            self.width - 2 * margin.horizontal,
                            self.height - 2 * margin.vertical)

\* C9 witness: a margin that fits was taken off a rect at x = u16::MAX, and
\* the x coordinate saturated.
C9_Witness ==
    /\ op = "inner"
    /\ self.x = U16MAX /\ margin.horizontal = 1 /\ self.width >= 2
    /\ 2 * margin.vertical <= self.height
    /\ rect.x = U16MAX /\ rect.width = self.width - 2

ClampedTo(v, d, lo, hi) ==
    IF d >= hi - v THEN hi
    ELSE IF d <= lo - v THEN lo
    ELSE v + d

\* C12: Rect::offset keeps width and height, and moves x to x + offset.x
\* clamped into [0, u16::MAX - width] and y to y + offset.y clamped into
\* [0, u16::MAX - height], without wrapping.
C12_OffsetClamped ==
    op = "offset" =>
        /\ rect.width = self.width
        /\ rect.height = self.height
        /\ rect.x = ClampedTo(self.x, offset.x, 0, U16MAX - self.width)
        /\ rect.y = ClampedTo(self.y, offset.y, 0, U16MAX - self.height)
        /\ rect.x + rect.width <= U16MAX
        /\ rect.y + rect.height <= U16MAX

\* C12 witness: a rect with cells was moved right by i32::MAX and stopped
\* with its far edge at u16::MAX, and moved up by one, stopping at 0.
C12_Witness ==
    /\ op = "offset"
    /\ offset.x = I32MAX /\ offset.y = -1
    /\ self.width > 0 /\ self.x < U16MAX - self.width /\ self.y = 0
    /\ rect.x = U16MAX - self.width /\ rect.y = 0

\* C14: Rect::new returns x and y unchanged, returns width and height
\* unchanged when width * height <= u16::MAX, and otherwise grows neither
\* and makes at least one strictly smaller.
C14_NewPreservesPositionAndSmallSizes ==
    op = "new" =>
        /\ rect.x = arg.x /\ rect.y = arg.y
        /\ IF AreaOverflows(arg.width, arg.height)
           THEN /\ rect.width <= arg.width
                /\ rect.height <= arg.height
                /\ (rect.width < arg.width \/ rect.height < arg.height)
           ELSE rect.width = arg.width /\ rect.height = arg.height

\* C14 witness: Rect::new was given 300 x 900, whose area is above u16::MAX,
\* and shrank both sides.
C14_Witness ==
    /\ op = "new"
    /\ arg.width = 300 /\ arg.height = 900
    /\ rect.width < 300 /\ rect.height < 900

(***************************************************************************)
(* Properties of the grids.                                                 *)
(***************************************************************************)
\* the dot (x, y) lies outside the grid's resolution
OutOfRange(g, x, y) ==
    x >= Grid_resolution(g)[1] \/ y >= Grid_resolution(g)[2]

\* C3: a paint call on any of the grids, whatever its coordinates, never
\* panics.
C3_PaintNeverPanics == gridCall.op = "paint" => gridStatus = "ok"

\* C4: a paint call whose dot is out of range on either axis changes no cell
\* symbol and no colour of the grid, nor the Layer save() returns.
C4_OutOfRangePaintIsNoOp ==
    [][ ( /\ gridCall'.op = "paint"
          /\ ngrid' = ngrid + 1
          /\ gridStatus' = "ok"
          /\ OutOfRange(grid, gridCall'.x, gridCall'.y) )
        => ( grid' = grid /\ Grid_save(grid') = Grid_save(grid) ) ]_vars

\* the bit of the dot <<row, column>> if it is among the dots, 0 otherwise
DotBit(painted, row, column) ==
    IF <<row, column>> \in painted THEN braille_DOTS(row, column) ELSE 0

\* the dot bits of a set of dots of one cell, OR-ed
DotBits(painted) ==
    DotBit(painted, 0, 0) + DotBit(painted, 0, 1) + DotBit(painted, 1, 0)
    + DotBit(painted, 1, 1) + DotBit(painted, 2, 0) + DotBit(painted, 2, 1)
    + DotBit(painted, 3, 0) + DotBit(painted, 3, 1)

\* C23: after any sequence of paint and reset calls on a BrailleGrid, every
\* cell's code point is in 0x2800..=0x28FF and is the blank pattern 0x2800
\* OR-ed with the dot bits of exactly the dots painted in that cell since the
\* last reset, and the cell's colour is that of the most recent paint into
\* the cell, Reset if there was none.
C23_BraillePattern ==
    grid.kind = "braille" =>
        \A k \in 1 .. Len(grid.utf16_code_points) :
            /\ grid.utf16_code_points[k] \in braille_BLANK .. (braille_BLANK + 255)
            /\ grid.utf16_code_points[k] = BitOr(braille_BLANK, DotBits(dots[k]))
            /\ grid.colors[k] = inks[k]

\* every call but a paint of a dot outside the grid keeps the pattern and the
\* colour of every cell as C23 states them
C23_KeptByCallsInsideGrid ==
    [][ ( /\ C23_BraillePattern
          /\ ~( /\ gridCall'.op = "paint"
                /\ ngrid' = ngrid + 1
                /\ ~InBrailleGrid(grid, gridCall'.x, gridCall'.y) ) )
        => C23_BraillePattern' ]_vars

(***************************************************************************)
(* Properties of the operations that accept Constraints.                    *)
(***************************************************************************)
HasBadPercentage(cs) ==
    \E i \in 1 .. Len(cs) : cs[i].kind = "Percentage" /\ cs[i].a > 100

\* C5: every operation that accepts Constraints panics when a given
\* constraint is Percentage(p) with p > 100 and accepts the others, so that
\* no Table and no Chart holds a Percentage above 100.
C5_PercentagesRejectedEverywhere ==
    /\ ~HasBadPercentage(table.widths)
    /\ ~HasBadPercentage(chart.hidden_legend_constraints)
    /\ widgetCall.op # "default" =>
         (widgetStatus = "panic" <=> HasBadPercentage(widgetCall.given))

\* C6: Rect::split::<N>(layout) returns exactly N rects when the layout has
\* exactly N constraints, and otherwise panics with "invalid number of rects"
\* and returns nothing.
C6_SplitCountChecked ==
    splitCall.op = "split" =>
        IF splitCall.N = Len(splitCall.layout.constraints)
        THEN splitStatus = "ok" /\ Len(splitRects) = splitCall.N
        ELSE splitStatus = "invalid number of rects" /\ splitRects = <<>>

\* C6 witness: three rects were asked of a layout of two constraints, and the
\* call panicked.
C6_Witness ==
    /\ splitCall.op = "split"
    /\ splitCall.N = 3
    /\ Len(splitCall.layout.constraints) = 2
    /\ splitStatus = "invalid number of rects"

(***************************************************************************)
(* Properties of Canvas rendering.                                          *)
(***************************************************************************)
\* C7: rendering a Canvas that has a paint closure into an area of width 0
\* or height 0, for every marker, completes without a panic and leaves the
\* symbol of every buffer cell as it was.
C7_ZeroAreaRenderIsClean ==
    (/\ canvasCall.op = "render"
     /\ canvasCall.canvas.paint_func.some
     /\ Rect_is_empty(canvasCall.area))
    => /\ canvasStatus = "ok"
       /\ \A i \in 1 .. Len(buf.content) :
            buf.content[i].symbol = Buffer_empty(BufferArea).content[i].symbol

(***************************************************************************)
(* Properties of the Rows and Columns iterators.                            *)
(***************************************************************************)
\* the i-th item (from 0) C13 names for an iterator over r
ExpectedItem(kind, r, i) ==
    IF kind = "rows" THEN Rect(r.x, r.y + i, r.width, 1)
    ELSE Rect(r.x + i, r.y, 1, r.height)

\* the number of items C13 names
ExpectedCount(kind, r) == IF kind = "rows" THEN r.height ELSE r.width

\* C13: r.rows() yields exactly r.height items, the i-th being
\* Rect(r.x, r.y + i, r.width, 1), and then None on every further call;
\* r.columns() yields exactly r.width items Rect(r.x + i, r.y, 1, r.height);
\* the counter never overflows.
C13_RowsColumnsExact ==
    /\ iterStatus = "ok"
    /\ Len(items) <= ExpectedCount(iter.kind, iter.rect)
    /\ \A i \in 1 .. Len(items) : items[i] = ExpectedItem(iter.kind, iter.rect, i - 1)
    /\ nNone > 0 => Len(items) = ExpectedCount(iter.kind, iter.rect)

(***************************************************************************)
(* Properties of Chart::layout.                                             *)
(***************************************************************************)
\* r lies entirely inside outer
Inside(r, outer) ==
    /\ Rect_left(r) >= Rect_left(outer)
    /\ r.x + r.width <= Rect_right(outer)
    /\ Rect_top(r) >= Rect_top(outer)
    /\ r.y + r.height <= Rect_bottom(outer)

\* C15: whenever Chart::layout produces a legend area, it lies entirely
\* inside the graph area, for each LegendPosition, for every origin of the
\* graph area, with or without axis titles, including when the legend is as
\* large as the graph area.
C15_LegendInsideGraphArea ==
    (layoutCall.op = "layout" /\ chartLayout.legend_area # None)
    => Inside(chartLayout.legend_area[1], chartLayout.graph_area)

\* the widths of the names of the datasets of the chart laid out
NamedWidths ==
    { layoutCall.chart.datasets[i][1] :
        i \in { j \in 1 .. Len(layoutCall.chart.datasets) :
                  layoutCall.chart.datasets[j] # None } }

\* the number of datasets of the chart laid out that have a name
NamedCount ==
    Cardinality({ j \in 1 .. Len(layoutCall.chart.datasets) :
                    layoutCall.chart.datasets[j] # None })

\* C16: Chart::layout produces no legend area when legend_position is None
\* or no dataset has a name; a legend that is produced is (number of named
\* datasets) + 2 high and (widest name) + 2 wide.
C16_LegendSize ==
    layoutCall.op = "layout" =>
        /\ (layoutCall.chart.legend_position = None \/ NamedCount = 0)
           => chartLayout.legend_area = None
        /\ chartLayout.legend_area # None =>
             /\ chartLayout.legend_area[1].height = NamedCount + 2
             /\ \E w \in NamedWidths :
                  /\ \A v \in NamedWidths : v <= w
                  /\ chartLayout.legend_area[1].width = w + 2

\* C16 witness: a legend was produced for a chart with two named datasets
\* and one without a name, and is 4 high.
C16_Witness ==
    /\ layoutCall.op = "layout"
    /\ layoutCall.chart.datasets = <<Some(2), None, Some(0)>>
    /\ chartLayout.legend_area # None
    /\ chartLayout.legend_area[1].height = 4
    /\ chartLayout.legend_area[1].width = 4

(***************************************************************************)
(* Properties of HalfBlockGrid::save.                                       *)
(***************************************************************************)
\* the upper and the lower pixel of the cell in column c of row r (0-based)
UpperPixel(r, c) == grid.pixels[2 * r + 1][c + 1]

LowerPixel(r, c) == grid.pixels[2 * r + 2][c + 1]

C17_SelectionWidth ==
    (renderCall.op = "render" /\ ~Rect_is_empty(renderCall.area)) =>
        LET spacing == renderCall.table.highlight_spacing
            has_selection == renderCall.state.selected # None
        IN  /\ (spacing = "Always" \/ (spacing = "WhenSelected" /\ has_selection))
               => selectionWidth = renderCall.table.highlight_symbol
            /\ (spacing = "Never" \/ (spacing = "WhenSelected" /\ ~has_selection))
               => selectionWidth = 0
            /\ \A k \in 1 .. Len(rendered) :
                 rendered[k].symbol =>
                    /\ selectionWidth > 0
                    /\ renderCall.state.selected = Some(rendered[k].i)

\* C17 witness: a table with highlight_spacing WhenSelected and a symbol two
\* wide was rendered with a row selected, and the symbol was drawn on that row
\* and on no other of the rows drawn.
C17_Witness ==
    /\ renderCall.op = "render"
    /\ renderCall.table.highlight_spacing = "WhenSelected"
    /\ selectionWidth = 2
    /\ Len(rendered) >= 2
    /\ \E k \in 1 .. Len(rendered) : rendered[k].symbol
    /\ \E k \in 1 .. Len(rendered) : ~rendered[k].symbol

(***************************************************************************)
(* Properties of rendering a Text.                                          *)
(***************************************************************************)
\* the shift the line of 0-based index i is to get in the rendered text
ExpectedShift(i) ==
    LET line == textCall.text.lines[i + 1]
        room == IF line.width > textCall.area.width THEN 0
                ELSE textCall.area.width - line.width
    IN  CASE line.alignment # None -> 0
          [] textCall.text.alignment = Some("Center") -> room \div 2
          [] textCall.text.alignment = Some("Right") -> room
          [] OTHER -> 0

\* every cell of r is a cell of outer, for rects that may end past the u16 range
Within(r, outer) ==
    /\ r.x >= outer.x
    /\ r.x + r.width <= outer.x + outer.width
    /\ r.y >= outer.y
    /\ r.y + r.height <= outer.y + outer.height

\* C19: Text::render draws line i only if i < area.height, on row
\* area.y + i, in a one-row area contained in the area, whose left edge is
\* area.x plus (area.width - line_width) / 2 for Center, plus
\* area.width - line_width for Right (0 for a line wider than the area), and
\* plus 0 for a line with its own alignment or a text aligned Left or unset.
C19_TextLineAreas ==
    textCall.op = "render" =>
        \A k \in 1 .. Len(textDrawn) :
            LET i == textDrawn[k].i
                line_area == textDrawn[k].line_area
            IN  /\ i < textCall.area.height
                /\ line_area.y = textCall.area.y + i
                /\ line_area.height = 1
                /\ Within(line_area, textCall.area)
                /\ line_area.x = textCall.area.x + ExpectedShift(i)

\* the same for areas whose right edge x + width is within the u16 range
C19_InRangeAreas ==
    textCall.area.x + textCall.area.width <= U16MAX => C19_TextLineAreas

(***************************************************************************)
(* Properties of the demo2 application.                                     *)
(***************************************************************************)
\* C20: on every exit path of App::run after Term::start has succeeded (a
\* normal quit, an error returned by draw or by handle_events, or a panic),
\* Term::stop has been invoked by the time run returns or the process exits.
C20_TerminalRestoredOnExit ==
    (appPc \in {"returned", "exited"} /\ term.started) =>
        (term.stops >= 1 /\ term.screen = "restored")

\* C20 witness: the process exited on a panic in the loop, after Term::start
\* had succeeded and the user had pressed keys, with the terminal restored.
C20_Witness ==
    /\ appPc = "exited"
    /\ appResult = "exit(1)"
    /\ term.started
    /\ term.stops = 1
    /\ app.mode = "Destroy"
    /\ app.context.tab_index = 4

(***************************************************************************)
(* Properties of Table::get_row_bounds.                                     *)
(***************************************************************************)
\* get_row_bounds indexed rows within bounds and did not underflow start or end
IndexSafe ==
    rowBounds.panic \notin {"index out of bounds", "attempt to subtract with overflow"}

\* the bounds computed are 0 <= start <= end <= rows.len()
BoundsOrdered ==
    /\ 0 <= rowBounds.start
    /\ rowBounds.start <= rowBounds.end
    /\ rowBounds.end <= Len(boundsCall.rows)

\* C21: for every non-empty row list, every selected, every offset and every
\* max_height, Table::get_row_bounds returns (start, end) with
\* 0 <= start <= end <= rows.len(), never indexing rows out of bounds and
\* never underflowing start or end while computing it.
C21_RowBoundsReturned ==
    boundsCall.op = "get_row_bounds" =>
        (rowBounds.panic = "" /\ BoundsOrdered /\ IndexSafe)

\* the same without the calls that stop on an overflow of the height counted
C21_IndexSafeAndOrdered ==
    (boundsCall.op = "get_row_bounds" /\ rowBounds.panic # "attempt to add with overflow")
        => (rowBounds.panic = "" /\ BoundsOrdered)

\* the index get_row_bounds clamps the selection to: the last row at most
ClampedSelected == Min(boundsCall.selected[1], Len(boundsCall.rows) - 1)

\* the selected row with its margins is not higher than max_height
SelectedFits ==
    Row_height_with_margin(boundsCall.rows[ClampedSelected + 1]) <= boundsCall.max_height

\* C22: when a row is selected (its index clamped to the last row) and that
\* row with its margins is not higher than max_height, the window
\* get_row_bounds returns contains it, start <= selected < end, for every
\* offset; so the offset render_rows stores, start, is at most selected.
C22_SelectedInWindow ==
    (/\ boundsCall.op = "get_row_bounds"
     /\ rowBounds.panic = ""
     /\ boundsCall.selected # None
     /\ SelectedFits)
        => /\ rowBounds.start <= ClampedSelected
           /\ ClampedSelected < rowBounds.end
           /\ rowBounds.start <= boundsCall.selected[1]

\* C22 witness: the selected first row lies before the offset and does not
\* fit together with the rows after it, and the window was moved back to it.
C22_Witness ==
    /\ boundsCall.op = "get_row_bounds"
    /\ rowBounds.panic = ""
    /\ boundsCall.selected = Some(0)
    /\ boundsCall.offset = 2
    /\ Len(boundsCall.rows) = 3
    /\ boundsCall.max_height = 2
    /\ SelectedFits
    /\ rowBounds.start = 0
    /\ rowBounds.end = 1

(***************************************************************************)
(* Specifications.                                                          *)
(***************************************************************************)
Init == RectInit /\ GridIdle /\ WidgetIdle /\ SplitIdle /\ CanvasIdle /\ IterIdle /\ LayoutIdle
    /\ RenderIdle /\ TextIdle /\ AppIdle /\ BoundsIdle

Next == RectNext

\* a program applying one Rect operation
Spec == Init /\ [][Next]_vars

InitGrid == GridInit /\ RectIdle /\ WidgetIdle /\ SplitIdle /\ CanvasIdle /\ IterIdle /\ LayoutIdle
    /\ RenderIdle /\ TextIdle /\ AppIdle /\ BoundsIdle

NextGrid == GridNext

\* a program painting on a grid
SpecGrid == InitGrid /\ [][NextGrid]_vars

InitWidget == WidgetInit /\ RectIdle /\ GridIdle /\ SplitIdle /\ CanvasIdle /\ IterIdle /\ LayoutIdle
    /\ RenderIdle /\ TextIdle /\ AppIdle /\ BoundsIdle

NextWidget == WidgetNext

\* a program building Tables and Charts
SpecWidget == InitWidget /\ [][NextWidget]_vars

InitSplit == SplitInit /\ RectIdle /\ GridIdle /\ WidgetIdle /\ CanvasIdle /\ IterIdle /\ LayoutIdle
    /\ RenderIdle /\ TextIdle /\ AppIdle /\ BoundsIdle

NextSplit == SplitNext

\* a program splitting an area
SpecSplit == InitSplit /\ [][NextSplit]_vars

InitCanvas == CanvasInit /\ RectIdle /\ GridIdle /\ WidgetIdle /\ SplitIdle /\ IterIdle /\ LayoutIdle
    /\ RenderIdle /\ TextIdle /\ AppIdle /\ BoundsIdle

NextCanvas == CanvasNext

\* a program rendering one Canvas
SpecCanvas == InitCanvas /\ [][NextCanvas]_vars

InitIter ==
    IterInit /\ RectIdle /\ GridIdle /\ WidgetIdle /\ SplitIdle /\ CanvasIdle /\ LayoutIdle
    /\ RenderIdle /\ TextIdle /\ AppIdle /\ BoundsIdle

NextIter == IterNext

\* a program iterating over the rows or the columns of one Rect
SpecIter == InitIter /\ [][NextIter]_vars

InitLayout ==
    /\ LayoutInit
    /\ RectIdle /\ GridIdle /\ WidgetIdle /\ SplitIdle /\ CanvasIdle /\ IterIdle
    /\ RenderIdle /\ TextIdle /\ AppIdle /\ BoundsIdle

NextLayout == LayoutNext

\* a program laying out one Chart
SpecLayout == InitLayout /\ [][NextLayout]_vars

InitHalfBlock ==
    /\ HalfBlockInit
    /\ RectIdle /\ WidgetIdle /\ SplitIdle /\ CanvasIdle /\ IterIdle /\ LayoutIdle
    /\ RenderIdle /\ TextIdle /\ AppIdle /\ BoundsIdle

NextHalfBlock == Save

\* a program saving a painted half-block grid
SpecHalfBlock == InitHalfBlock /\ [][NextHalfBlock]_vars

InitRender ==
    /\ RenderInit
    /\ RectIdle /\ GridIdle /\ WidgetIdle /\ SplitIdle /\ CanvasIdle /\ IterIdle
    /\ LayoutIdle /\ TextIdle /\ AppIdle /\ BoundsIdle

NextRender == RenderNext

\* a program rendering one Table
SpecRender == InitRender /\ [][NextRender]_vars

InitText ==
    /\ TextInit
    /\ RectIdle /\ GridIdle /\ WidgetIdle /\ SplitIdle /\ CanvasIdle /\ IterIdle
    /\ LayoutIdle /\ RenderIdle /\ AppIdle /\ BoundsIdle

NextText == TextNext

\* a program rendering one Text
SpecText == InitText /\ [][NextText]_vars

InitApp ==
    /\ AppInit
    /\ RectIdle /\ GridIdle /\ WidgetIdle /\ SplitIdle /\ CanvasIdle /\ IterIdle
    /\ LayoutIdle /\ RenderIdle /\ TextIdle /\ BoundsIdle

NextApp == AppNext

\* the demo2 application running
SpecApp == InitApp /\ [][NextApp]_vars

InitBounds ==
    /\ BoundsInit
    /\ RectIdle /\ GridIdle /\ WidgetIdle /\ SplitIdle /\ CanvasIdle /\ IterIdle
    /\ LayoutIdle /\ RenderIdle /\ TextIdle /\ AppIdle

NextBounds == BoundsNext

\* a program asking one Table for its row bounds
SpecBounds == InitBounds /\ [][NextBounds]_vars

====
